---- MODULE Spec2Model ----
(***************************************************************************)
(* A model of the nutrition catalog pipeline of ml_service/scripts:        *)
(*   openfoodfacts_to_json.py  process_export and what it calls            *)
(*   build_nutrition_db.py     main (the catalog build)                    *)
(*   search_food.py            search_food and classify                    *)
(*                                                                         *)
(* Text is a sequence of one-character strings, so that the conversions    *)
(* of the code (lower-casing, trimming, collapsing, LIKE matching) are     *)
(* computed and not assumed.  An optional value (Python None or a value)   *)
(* is <<>> or <<value>>.  A float is a record [t, v, k]: t is "null",      *)
(* "nan" or "num", v an integer and k the factor v is multiplied by.       *)
(***************************************************************************)
EXTENDS Integers, Sequences, FiniteSets, TLC

VARIABLES
    pc,           \* which program runs, and where it is
    (* search_food.py: classify *)
    cl_in,        \* the nutrient dict handed to classify
    cl_out,       \* what classify returned, None before the call
    (* openfoodfacts_to_json.py: process_export *)
    idx,          \* the lines read so far
    records,      \* the dict key -> (coverage, record), in insertion order
    resolver,     \* the CategoryResolver of the run
    seen,         \* history: the results extract_record returned, in order
    rejected,     \* history: the products extract_record returned None for
    off_file,     \* foods.openfoodfacts.json: None, or Some(items)
    (* build_nutrition_db.py: main *)
    foods,        \* the rows of the table foods
    alias,        \* the rows of the table alias
    alias_log,    \* history: the alias rows written, in the order of the writes
    (* search_food.py: search_food *)
    found,        \* None, or Some of the last call: [q, limit, tier, rows]
    (* the reduction of process_export over several sources *)
    m_in,         \* the two sources: <<a, b>>
    m_out,        \* None, or Some of the maps the orders of reduction give
    (* one function called on its own *)
    call_in,      \* the arguments of the call
    call_out      \* None before the call, then Some of what it returned

classify_vars == <<cl_in, cl_out>>
export_vars == <<idx, records, resolver, seen, rejected, off_file>>
build_vars == <<foods, alias, alias_log>>
merge_vars == <<m_in, m_out>>
call_vars == <<call_in, call_out>>
vars == <<pc, cl_in, cl_out, idx, records, resolver, seen, rejected, off_file,
          foods, alias, alias_log, found, m_in, m_out, call_in, call_out>>

---------------------------------------------------------------------------
(* Values *)

None == <<>>
Some(x) == <<x>>
IsNone(o) == o = <<>>
Val(o) == o[1]

Null == [t |-> "null", v |-> 0, k |-> "x1"]
NaN == [t |-> "nan", v |-> 0, k |-> "x1"]
Num(n) == [t |-> "num", v |-> n, k |-> "x1"]
Scaled(n, factor) == [t |-> "num", v |-> n, k |-> factor]
IsNull(x) == x.t = "null"

NUTRIENT_FIELDS ==
    <<"energy_kcal", "protein_g", "fat_g", "sat_fat_g",
      "carb_g", "sugar_g", "fiber_g", "sodium_mg">>

FieldSet == {NUTRIENT_FIELDS[i] : i \in 1..Len(NUTRIENT_FIELDS)}

---------------------------------------------------------------------------
(* Text: what str.lower, str.strip, str.split, re.sub and sorted() compute *)

UPPER == <<"A", "B", "C", "D", "E", "F", "G", "H", "I", "J", "K", "L", "M",
           "N", "O", "P", "Q", "R", "S", "T", "U", "V", "W", "X", "Y", "Z">>
LOWER == <<"a", "b", "c", "d", "e", "f", "g", "h", "i", "j", "k", "l", "m",
           "n", "o", "p", "q", "r", "s", "t", "u", "v", "w", "x", "y", "z">>
DIGITS == <<"0", "1", "2", "3", "4", "5", "6", "7", "8", "9">>

\* The characters of the model in code point order (the order sorted() uses).
CODE_POINTS ==
    <<" ", "%", "&", "(", ")", ",", "-", ".", "/">> \o DIGITS \o <<":">>
    \o UPPER \o <<"_">> \o LOWER

\* F(v) with v computed once, before F is entered: the argument of a Python
\* call is a value.
Apply(F(_), v) == CHOOSE r \in {F(x) : x \in {v}} : TRUE

\* The tuple of a finite sequence.
Tuple(f) == f \o <<>>

Range(seq) == Apply(LAMBDA x : {x[i] : i \in 1..Len(x)}, seq)
SetMin(S) == Apply(LAMBDA T : CHOOSE x \in T : \A y \in T : x <= y, S)
SetMax(S) == Apply(LAMBDA T : CHOOSE x \in T : \A y \in T : x >= y, S)

\* [F(e) for e in s]
Map(s, F(_)) == Apply(LAMBDA x : Tuple([i \in 1..Len(x) |-> F(x[i])]), s)

\* range(1, n + 1)
Indices(n) == Tuple([i \in 1..n |-> i])

Ord(c) == Apply(LAMBDA x : CHOOSE i \in 1..Len(CODE_POINTS) : CODE_POINTS[i] = x, c)

UpperSet == Range(UPPER)
LowerSet == Range(LOWER)
DigitSet == Range(DIGITS)

IsSpace(c) == c = " "
IsLowerAlnum(c) == c \in LowerSet \/ c \in DigitSet

LowerChar(c) ==
    IF c \in UpperSet
    THEN LOWER[CHOOSE i \in 1..Len(UPPER) : UPPER[i] = c]
    ELSE c

\* str.lower()
Lower(s) == Map(s, LowerChar)

\* str.strip()
Strip(s) ==
    Apply(LAMBDA x :
              LET keep == {i \in 1..Len(x) : ~IsSpace(x[i])}
              IN  IF keep = {} THEN <<>> ELSE SubSeq(x, SetMin(keep), SetMax(keep)),
          s)

\* re.sub(<one or more characters of a class>, " ", s): each maximal run of
\* characters of the class becomes one space.
SubRuns(s, InClass(_)) ==
    Apply(LAMBDA x :
              LET first(i) == ~InClass(x[i]) \/ i = 1 \/ ~InClass(x[i - 1])
              IN  Map(SelectSeq(Indices(Len(x)), first),
                      LAMBDA i : IF InClass(x[i]) THEN " " ELSE x[i]),
          s)

\* re.sub(r"\s+", " ", s)
CollapseSpaces(s) == SubRuns(s, IsSpace)

\* str.split(): the maximal runs of non-whitespace, in order
Split(s) ==
    Apply(LAMBDA x :
              LET start(i) == ~IsSpace(x[i]) /\ (i = 1 \/ IsSpace(x[i - 1]))
                  end(i) == SetMin({j \in i..Len(x) : j = Len(x) \/ IsSpace(x[j + 1])})
              IN  Map(SelectSeq(Indices(Len(x)), start),
                      LAMBDA i : SubSeq(x, i, end(i))),
          s)

\* str.split(sep) for a one-character sep: the pieces between separators
SplitOn(s, sep) ==
    Apply(LAMBDA x :
              LET bounds == {0} \cup {i \in 1..Len(x) : x[i] = sep} \cup {Len(x) + 1}
                  next(b) == SetMin({c \in bounds : c > b})
              IN  Map(SelectSeq(Tuple([i \in 1..Len(x) + 1 |-> i - 1]),
                                LAMBDA b : b \in bounds),
                      LAMBDA b : SubSeq(x, b + 1, next(b) - 1)),
          s)

RECURSIVE Join(_, _)
\* sep.join(parts)
Join(parts, sep) ==
    Apply(LAMBDA x :
              IF x = <<>> THEN <<>>
              ELSE IF Len(x) = 1 THEN x[1]
              ELSE x[1] \o sep \o Join(Tail(x), sep),
          parts)

\* needle in hay
Contains(hay, needle) ==
    Apply(LAMBDA h : Apply(LAMBDA n :
              \E i \in 0..(Len(h) - Len(n)) : SubSeq(h, i + 1, i + Len(n)) = n,
          needle), hay)

StartsWith(s, prefix) ==
    Apply(LAMBDA x : Len(x) >= Len(prefix) /\ SubSeq(x, 1, Len(prefix)) = prefix, s)

EndsWith(s, suffix) ==
    Apply(LAMBDA x : /\ Len(x) >= Len(suffix)
                     /\ SubSeq(x, Len(x) - Len(suffix) + 1, Len(x)) = suffix,
          s)

\* a < b for Python strings: by code point at the first difference, a
\* proper prefix first
StrLess(a, b) ==
    Apply(LAMBDA x : Apply(LAMBDA y :
              LET diff == {i \in 1..Len(x) : i <= Len(y) /\ x[i] # y[i]}
              IN  IF diff = {} THEN Len(x) < Len(y)
                  ELSE Ord(x[SetMin(diff)]) < Ord(y[SetMin(diff)]),
          b), a)

\* A stable sort: Before(x, y) says that x's key is strictly less than y's.
StableSort(seq, Before(_, _)) ==
    Apply(LAMBDA x :
              LET rank(i) == Cardinality({j \in 1..Len(x) :
                                 Before(x[j], x[i]) \/ (~Before(x[i], x[j]) /\ j < i)})
              IN  Map(Indices(Len(x)),
                      LAMBDA r : x[CHOOSE i \in 1..Len(x) : rank(i) = r - 1]),
          seq)

\* sorted(S) for a set of strings
SortedStrings(S) ==
    Apply(LAMBDA T :
              LET rank(x) == Cardinality({y \in T : StrLess(y, x)})
              IN  Map(Indices(Cardinality(T)),
                      LAMBDA r : CHOOSE x \in T : rank(x) = r - 1),
          S)

\* seq[:n]
Take(seq, n) ==
    Apply(LAMBDA x : SubSeq(x, 1, IF n < Len(x) THEN n ELSE Len(x)), seq)

---------------------------------------------------------------------------
(* openfoodfacts_to_json.py: the raw product and its conversions *)

\* The value under a key of a JSON object: absent (or null), a float NaN,
\* a number, or a string.
RAbsent == [t |-> "absent", v |-> 0, s |-> <<>>]
RNaN == [t |-> "nan", v |-> 0, s |-> <<>>]
RNum(n) == [t |-> "num", v |-> n, s |-> <<>>]
RStr(s) == [t |-> "str", v |-> 0, s |-> s]

RECURSIVE DigitsValue(_)
\* The integer a sequence of digits denotes.
DigitsValue(d) ==
    Apply(LAMBDA x :
              IF x = <<>> THEN 0
              ELSE 10 * DigitsValue(SubSeq(x, 1, Len(x) - 1))
                   + (CHOOSE i \in 1..10 : DIGITS[i] = x[Len(x)]) - 1,
          d)

\* float(s) for a text of digits, "-" and ".": Some(value), or None for the
\* ValueError.  The texts of the model hold no "." between digits, so every
\* value is an integer.
ParseFloat(s) ==
    Apply(LAMBDA x :
              LET body == IF x # <<>> /\ Head(x) = "-" THEN Tail(x) ELSE x
              IN  IF body # <<>> /\ \A i \in 1..Len(body) : body[i] \in DigitSet
                  THEN Some(IF body = x THEN DigitsValue(body)
                            ELSE 0 - DigitsValue(body))
                  ELSE None,
          s)

to_float(value) ==
    IF value.t = "absent" THEN Null
    ELSE IF value.t = "nan" THEN Null
    ELSE IF value.t = "num" THEN Num(value.v)
    ELSE Apply(LAMBDA x :
                   Apply(LAMBDA parsed :
                             IF x = <<>> THEN Null
                             ELSE IF IsNone(parsed) THEN Null
                             ELSE Num(Val(parsed)),
                         ParseFloat(SelectSeq(x, LAMBDA c :
                             c \in DigitSet \/ c = "." \/ c = "-"))),
               Strip(value.s))

NUTRIMENT_KEYS ==
    {"energy-kcal_100g", "energy-kcal_value", "energy-kcal",
     "energy-kj_100g", "energy_100g", "energy-kj_value", "energy",
     "proteins_100g", "fat_100g", "saturated-fat_100g", "carbohydrates_100g",
     "sugars_100g", "fiber_100g", "sodium_100g", "salt_100g"}

\* The first key of `keys` whose value parses, as an index, or 0.
FirstParsed(nutr, keys) ==
    LET ok == {i \in 1..Len(keys) : ~IsNull(to_float(nutr[keys[i]]))}
    IN  IF ok = {} THEN 0 ELSE SetMin(ok)

\* A variant that converts a kilojoule value whenever there is one.
energy_from_nutriments_prefers_kj(nutr) ==
    LET kcal_keys == <<"energy-kcal_100g", "energy-kcal_value", "energy-kcal">>
        kj_keys == <<"energy-kj_100g", "energy_100g", "energy-kj_value", "energy">>
        c == FirstParsed(nutr, kcal_keys)
        j == FirstParsed(nutr, kj_keys)
    IN  IF j # 0 THEN Scaled(to_float(nutr[kj_keys[j]]).v, "x0.239005736")
        ELSE IF c # 0 THEN to_float(nutr[kcal_keys[c]])
        ELSE Null

energy_from_nutriments(nutr) ==
    LET kcal_keys == <<"energy-kcal_100g", "energy-kcal_value", "energy-kcal">>
        kj_keys == <<"energy-kj_100g", "energy_100g", "energy-kj_value", "energy">>
        c == FirstParsed(nutr, kcal_keys)
        j == FirstParsed(nutr, kj_keys)
    IN  IF c # 0 THEN to_float(nutr[kcal_keys[c]])
        ELSE IF j # 0 THEN Scaled(to_float(nutr[kj_keys[j]]).v, "x0.239005736")
        ELSE Null

sodium_from_nutriments(nutr) ==
    LET sodium_g == to_float(nutr["sodium_100g"])
        salt_g == to_float(nutr["salt_100g"])
    IN  IF ~IsNull(sodium_g) THEN Scaled(sodium_g.v, "x1000")
        ELSE IF ~IsNull(salt_g) THEN Scaled(salt_g.v, "xSALT_TO_SODIUM")
        ELSE Null

pick_name(product) ==
    LET name == product.product_name_en
    IN  IF ~IsNone(name) /\ Strip(Val(name)) # <<>>
        THEN Some(CollapseSpaces(Strip(Val(name))))
        ELSE None

\* NON_ALNUM_RE.sub(" ", name.lower()).strip()
norm_key(name) == Strip(SubRuns(Lower(name), LAMBDA c : ~IsLowerAlnum(c)))

\* md5(name_key).hexdigest()[:12]: a text that names the key it digests
\* ("#" is no character of a code); two keys never share a digest.
Digest(name_key) == <<"#">> \o name_key

choose_id(product, name_key) ==
    LET code == product.code
    IN  IF ~IsNone(code) /\ Strip(Val(code)) # <<>>
        THEN <<"o", "f", "f", "-">> \o Strip(Val(code))
        ELSE <<"o", "f", "f", "-">> \o Digest(name_key)

\* product.generic: the string values under generic_name_en, generic_name,
\* product_name_fr, product_name_de, product_name_es, in that order;
\* product.brands: the text under "brands" ("" when the key is absent).
build_aliases(product, name) ==
    LET generic == Range(Map(product.generic, LAMBDA g : CollapseSpaces(Strip(g))))
        brands == Range(Map(SplitOn(product.brands, ","), Strip)) \ {<<>>}
        aliases == (generic \cup brands) \ {name}
    IN  Take(SortedStrings({a \in aliases : Len(a) >= 3}), 8)

ALLOWED_COUNTRY_SLUGS ==
    {"afghanistan", "american samoa", "australia", "bangladesh", "bhutan",
     "brunei", "burma", "cambodia", "china", "cook islands",
     "democratic people s republic of korea", "east timor",
     "federated states of micronesia", "fiji", "french polynesia", "guam",
     "hksar china", "hong kong", "hong kong sar china", "india",
     "indonesia", "japan", "kiribati", "korea republic of",
     "lao people s democratic republic", "laos", "macao", "macau",
     "macau sar china", "malaysia", "maldives", "marshall islands",
     "micronesia", "myanmar", "nauru", "nepal", "new caledonia",
     "new zealand", "niue", "north korea", "northern mariana islands",
     "pakistan", "palau", "papua new guinea", "philippines",
     "pitcairn islands", "republic of korea", "samoa", "singapore",
     "solomon islands", "south korea", "sri lanka", "taiwan", "thailand",
     "tibet", "timor leste", "tokelau", "tonga", "tuvalu", "vanuatu",
     "vietnam", "wallis and futuna", "xizang"}

ALLOWED_MISC == {"world", "international"}

\* product.countries: the non-empty results of normalize_country over
\* countries_tags and the comma separated parts of countries.
product_in_allowed_region(product) ==
    LET countries == product.countries
        allowed_seen == \E c \in countries : c \in ALLOWED_COUNTRY_SLUGS
        disallowed_present ==
            \E c \in countries : c \notin ALLOWED_COUNTRY_SLUGS /\ c \notin ALLOWED_MISC
    IN  IF countries = {} THEN FALSE ELSE allowed_seen /\ ~disallowed_present

---------------------------------------------------------------------------
(* The lines of the export process_export is run on *)

\* A nutriments dict from <<key, value>> pairs; the other keys are absent.
Nutriments(pairs) ==
    [k \in NUTRIMENT_KEYS |->
        IF \E i \in 1..Len(pairs) : pairs[i][1] = k
        THEN pairs[CHOOSE i \in 1..Len(pairs) : pairs[i][1] = k][2]
        ELSE RAbsent]

\* coverage 3
N3 == Nutriments(<< <<"proteins_100g", RNum(3)>>, <<"fat_100g", RNum(1)>>,
                    <<"sugars_100g", RNum(2)>> >>)
\* coverage 3, other fields
N3b == Nutriments(<< <<"proteins_100g", RNum(4)>>, <<"fat_100g", RNum(1)>>,
                     <<"fiber_100g", RNum(2)>> >>)
\* coverage 5
N5 == Nutriments(<< <<"energy-kcal_100g", RNum(50)>>, <<"proteins_100g", RNum(3)>>,
                    <<"fat_100g", RNum(1)>>, <<"carbohydrates_100g", RNum(9)>>,
                    <<"sugars_100g", RNum(2)>> >>)
\* coverage 2, both values converted: energy in kJ, sodium from salt
N2 == Nutriments(<< <<"energy_100g", RNum(1000)>>, <<"salt_100g", RNum(1)>> >>)
\* coverage 2 out of four keys: one text does not parse, one value is NaN
N2s == Nutriments(<< <<"proteins_100g", RStr(<<"1", "2", "g">>)>>, <<"fat_100g", RStr(<<"a", "b", "c">>)>>,
                     <<"sugars_100g", RNaN>>, <<"fiber_100g", RStr(<<" ", "7">>)>> >>)
\* coverage 1 out of three keys
N1s == Nutriments(<< <<"proteins_100g", RNum(3)>>, <<"fat_100g", RStr(<<"-">>)>>,
                     <<"sugars_100g", RNaN>> >>)

\* kind: "blank" (empty after strip), "badjson" (json.loads raises
\* JSONDecodeError), "nonobject" (JSON that is no object: a list, a number,
\* null) or "product" (a JSON object, with the fields extract_record reads).
PA3 ==
    [kind |-> "product", countries |-> {"malaysia"},
     nutriments_is_dict |-> TRUE, nutriments |-> N3,
     product_name_en |-> Some(<<"A", "b", " ", "c">>), code |-> Some(<<"1", "1">>),
     generic |-> << <<"t", "e", "a">> >>, brands |-> <<>>,
     categories |-> << <<"e", "n", ":", "s", "n", "a", "c", "k", "s">> >>]

\* the key of PA3 under another name, the same coverage, no code
PA3b ==
    [PA3 EXCEPT !.nutriments = N3b, !.product_name_en = Some(<<"a", "b", "-", "c">>),
                !.code = None, !.generic = << <<"c", "h", "a">> >>, !.brands = <<"B", "o", "h", ",", " ", "x">>]

\* the key of PA3 again, coverage 5
PA5 ==
    [PA3 EXCEPT !.nutriments = N5, !.product_name_en = Some(<<"A", "b", " ", " ", "c", " ">>),
                !.code = Some(<<" ", "1", "2", " ">>), !.generic = << <<"t", "e", "h", " ", " ", "o">> >>,
                !.countries = {"malaysia", "world"},
                !.categories = << <<"e", "n", ":", "t", "e", "a", "-", "b", "a", "g", "s">>, <<"t", "e", "a", "s">> >>]

\* another key, the code of PA3
PD2 ==
    [PA3 EXCEPT !.nutriments = N2, !.product_name_en = Some(<<"D", "e">>),
                !.generic = <<>>, !.categories = << <<"S", "n", "a", "c", "k">> >>]

\* the key of PD2, the same coverage
PD2s ==
    [PA3 EXCEPT !.nutriments = N2s, !.product_name_en = Some(<<"d", "e">>),
                !.code = None, !.generic = << <<"d", "e", "e">> >>]

AcceptedProducts == {PA3, PA3b, PA5, PD2, PD2s}

RejectedProducts ==
    {[PA5 EXCEPT !.nutriments = N1s],                        \* coverage 1
     [PA5 EXCEPT !.countries = {"malaysia", "france"}],      \* region
     [PA5 EXCEPT !.countries = {}],
     [PA5 EXCEPT !.nutriments_is_dict = FALSE],
     [PA5 EXCEPT !.product_name_en = None],
     [PA5 EXCEPT !.product_name_en = Some(<<" ">>)],
     [PA5 EXCEPT !.product_name_en = Some(<<"-", "-">>)],          \* empty key
     [PA5 EXCEPT !.categories = << <<"o", "t", "h", "e", "r">>, <<"e", "n", ":">> >>],    \* no token
     [PA5 EXCEPT !.categories = <<>>]}

Lines ==
    AcceptedProducts \cup RejectedProducts
    \cup {[PA3 EXCEPT !.kind = k] : k \in {"blank", "badjson", "nonobject"}}

MaxLines == 3

---------------------------------------------------------------------------
(* openfoodfacts_to_json.py: CategoryResolver *)

CATEGORY_SEEDS ==
    <<<<"b", "e", "v", "e", "r", "a", "g", "e">>, <<"s", "n", "a", "c", "k">>, <<"s", "a", "u", "c", "e">>, <<"c", "a", "n", "n", "e", "d", " ", "f", "i", "s", "h">>, <<"g", "r", "o", "c", "e", "r", "y">>,
      <<"n", "o", "o", "d", "l", "e">>, <<"c", "u", "r", "r", "y">>, <<"b", "u", "r", "g", "e", "r">>, <<"o", "t", "h", "e", "r">>>>

CATEGORY_STOPWORDS ==
    {<<"f", "o", "o", "d">>, <<"f", "o", "o", "d", "s">>, <<"p", "r", "o", "d", "u", "c", "t">>, <<"p", "r", "o", "d", "u", "c", "t", "s">>, <<"o", "t", "h", "e", "r">>,
     <<"m", "i", "s", "c", "e", "l", "l", "a", "n", "e", "o", "u", "s">>, <<"v", "a", "r", "i", "o", "u", "s">>, <<"a", "n", "d">>, <<"r", "e", "a", "d", "y">>, <<"p", "r", "e", "p", "a", "r", "e", "d">>}

singularize_token(token) ==
    IF EndsWith(token, <<"i", "e", "s">>) /\ Len(token) > 3
    THEN SubSeq(token, 1, Len(token) - 3) \o <<"y">>
    ELSE IF EndsWith(token, <<"s", "e", "s">>) /\ Len(token) > 3
    THEN SubSeq(token, 1, Len(token) - 2)
    ELSE IF EndsWith(token, <<"s">>) /\ Len(token) > 3
    THEN SubSeq(token, 1, Len(token) - 1)
    ELSE token

\* raw.split(":", 1)[1] when ":" is in raw
AfterColon(raw) ==
    Apply(LAMBDA x :
              LET colons == {i \in 1..Len(x) : x[i] = ":"}
              IN  IF colons = {} THEN x ELSE SubSeq(x, SetMin(colons) + 1, Len(x)),
          raw)

\* Some(text) or None
normalize_category_value(value) ==
    LET raw0 == Lower(Strip(value))
        raw1 == Map(AfterColon(raw0),
                    LAMBDA c : IF c \in {"-", "/", "&"} THEN " " ELSE c)
        raw2 == SubRuns(raw1, LAMBDA c : ~(IsLowerAlnum(c) \/ IsSpace(c)))
        raw3 == Strip(CollapseSpaces(raw2))
    IN  Apply(LAMBDA r : IF raw0 = <<>> \/ r = <<>> THEN None ELSE Some(r), raw3)

tokenize_category(norm) ==
    SelectSeq(Map(SelectSeq(Split(norm), LAMBDA p : p \notin CATEGORY_STOPWORDS),
                  singularize_token),
              LAMBDA t : t # <<>>)

canonical_category_slug(norm, tokens) ==
    Apply(LAMBDA t :
              IF t # <<>> THEN Join(t, <<"_">>)
              ELSE Map(norm, LAMBDA c : IF c = " " THEN "_" ELSE c),
          tokens)

\* A dict that keeps insertion order, as a sequence of <<key, value>>.
DictHas(d, key) ==
    Apply(LAMBDA x : Apply(LAMBDA k : \E i \in 1..Len(x) : x[i][1] = k, key), d)
DictGet(d, key) ==
    Apply(LAMBDA x : Apply(LAMBDA k :
              x[CHOOSE i \in 1..Len(x) : x[i][1] = k][2], key), d)
DictSet(d, key, value) ==
    Apply(LAMBDA x : Apply(LAMBDA k : Apply(LAMBDA v :
              IF \E i \in 1..Len(x) : x[i][1] = k
              THEN Map(x, LAMBDA e : IF e[1] = k THEN <<k, v>> ELSE e)
              ELSE Append(x, <<k, v>>),
          value), key), d)

\* A variant that assigns the token set of the category where the code
\* updates it.
AddTokens_replaces(category_tokens, category, token_set) ==
    DictSet(category_tokens, category, token_set)

\* self.category_tokens.setdefault(category, set()).update(tokens)
AddTokens(category_tokens, category, token_set) ==
    DictSet(category_tokens, category,
            (IF DictHas(category_tokens, category)
             THEN DictGet(category_tokens, category) ELSE {}) \cup token_set)

\* CategoryResolver.__init__ before seeding.  _candidate_cache memoizes
\* normalize_category_value, tokenize_category and canonical_category_slug,
\* which are functions of the raw text alone: it changes no result and is
\* left out of the state.
EmptyResolver == [slug_to_category |-> <<>>, category_tokens |-> <<>>]

\* A variant that maps the slug and records no token set for it.
register_new_maps_only(st, slug, tokens) ==
    [st |-> [slug_to_category |-> DictSet(st.slug_to_category, slug, slug),
             category_tokens |-> st.category_tokens],
     category |-> slug]

register_new(st, slug, tokens) ==
    [st |-> [slug_to_category |-> DictSet(st.slug_to_category, slug, slug),
             category_tokens |-> AddTokens(st.category_tokens, slug, Range(tokens))],
     category |-> slug]

register_seed(st, name) ==
    Apply(LAMBDA norm :
        IF IsNone(norm) THEN st
        ELSE Apply(LAMBDA tokens :
            IF tokens = <<>> THEN st
            ELSE Apply(LAMBDA slug :
                IF DictHas(st.slug_to_category, slug)
                THEN [st EXCEPT !.category_tokens =
                         AddTokens(@, DictGet(st.slug_to_category, slug),
                                   Range(tokens))]
                ELSE register_new(st, slug, tokens).st,
              canonical_category_slug(Val(norm), tokens)),
          tokenize_category(Val(norm))),
      normalize_category_value(name))

RECURSIVE seed(_, _)
seed(st, seeds) ==
    Apply(LAMBDA x :
              IF seeds = <<>> THEN x
              ELSE seed(register_seed(x, Head(seeds)), Tail(seeds)),
          st)

\* CategoryResolver(CATEGORY_SEEDS)
SeededResolver == seed(EmptyResolver, CATEGORY_SEEDS)

\* The test of _match_existing's loop body for one existing category.
Merges(tokens, existing_tokens) ==
    LET token_set == Range(tokens)
        core_hit == tokens # <<>> /\ tokens[Len(tokens)] \in existing_tokens
        overlap == Cardinality(token_set \cap existing_tokens)
        a == Cardinality(token_set)
        b == Cardinality(existing_tokens)
        min_len == IF a < b THEN a ELSE b
        max_len == IF a < b THEN b ELSE a
    IN  \/ core_hit
        \/ /\ overlap # 0
           /\ (overlap = min_len \/ (max_len # 0 /\ 10 * overlap >= 6 * max_len))

\* A variant that knows the slugs it has stored and merges no new one.
match_existing_known_only(st, slug, tokens) ==
    IF DictHas(st.slug_to_category, slug)
    THEN [st |-> st, match |-> Some(DictGet(st.slug_to_category, slug))]
    ELSE [st |-> st, match |-> None]

\* A variant that compares a slug with the categories even when it is mapped.
match_existing_no_shortcut(st, slug, tokens) ==
    LET s2c == st.slug_to_category
        existing(i) == IF DictHas(st.category_tokens, s2c[i][2])
                       THEN DictGet(st.category_tokens, s2c[i][2]) ELSE {}
        hits == {i \in 1..Len(s2c) : Merges(tokens, existing(i))}
    IN  IF hits = {} THEN [st |-> st, match |-> None]
        ELSE Apply(LAMBDA category :
                 [st |-> [slug_to_category |-> DictSet(s2c, slug, category),
                          category_tokens |->
                              AddTokens(st.category_tokens, category, Range(tokens))],
                  match |-> Some(category)],
               s2c[SetMin(hits)][2])

\* [st, match]: match is Some(category) or None
match_existing(st, slug, tokens) ==
    LET s2c == st.slug_to_category
        existing(i) == IF DictHas(st.category_tokens, s2c[i][2])
                       THEN DictGet(st.category_tokens, s2c[i][2]) ELSE {}
        hits == {i \in 1..Len(s2c) : Merges(tokens, existing(i))}
    IN  IF DictHas(s2c, slug) THEN [st |-> st, match |-> Some(DictGet(s2c, slug))]
        ELSE IF hits = {} THEN [st |-> st, match |-> None]
        ELSE Apply(LAMBDA category :
                 [st |-> [slug_to_category |-> DictSet(s2c, slug, category),
                          category_tokens |->
                              AddTokens(st.category_tokens, category, Range(tokens))],
                  match |-> Some(category)],
               s2c[SetMin(hits)][2])

\* What resolve stores in _candidate_cache for a raw text it has not met:
\* None, or Some([slug, tokens]).
process_candidate(raw) ==
    Apply(LAMBDA norm :
        IF IsNone(norm) THEN None
        ELSE Apply(LAMBDA tokens :
            IF tokens = <<>> THEN None
            ELSE Some([slug |-> canonical_category_slug(Val(norm), tokens),
                       tokens |-> tokens]),
          tokenize_category(Val(norm))),
      normalize_category_value(raw))

\* The candidate lists of the resolve calls of a run of calls.
ResolveLists ==
    {<<<<"e", "n", ":", "p", "o", "t", "a", "t", "o", "-", "c", "h", "i", "p", "s">>>>, <<<<"c", "h", "i", "p", "s">>>>, <<<<"f", "i", "s", "h", " ", "c", "u", "r", "r", "y">>>>, <<<<"c", "u", "r", "r", "y", " ", "f", "i", "s", "h">>>>,
     <<<<"S", "n", "a", "c", "k", "s">>>>, <<<<"o", "t", "h", "e", "r">>>>, <<<<"e", "n", ":">>>>, <<>>,
     <<<<"o", "t", "h", "e", "r">>, <<"t", "e", "a", "s">>>>, <<<<"e", "n", ":", "t", "e", "a", "-", "b", "a", "g", "s">>, <<"t", "e", "a", "s">>>>,
     <<<<"j", "a", "m", "s">>, <<"t", "e", "a", "s">>>>}

\* _candidate_cache: a text is processed when resolve first meets it and
\* looked up afterwards.  Its value is a function of the text alone, so the
\* cache is the table of that function over the texts of the run.
RawCategories ==
    UNION {Range(l.categories) : l \in Lines} \cup UNION {Range(c) : c \in ResolveLists}
candidate_cache == [raw \in RawCategories |-> process_candidate(raw)]

RECURSIVE Processed(_, _)
\* The first loop of resolve: the cached candidates that are not None, the
\* first of each slug only, in the order of raw_candidates.
Processed(raw_candidates, processed) ==
    Apply(LAMBDA acc :
        IF raw_candidates = <<>> THEN acc
        ELSE Processed(Tail(raw_candidates),
                 LET cached == candidate_cache[Head(raw_candidates)]
                 IN  IF IsNone(cached) THEN acc
                     ELSE IF \E k \in 1..Len(acc) : acc[k].slug = Val(cached).slug
                     THEN acc
                     ELSE Append(acc, Val(cached))),
      processed)

\* A variant that leaves the candidates in the order of the input.
SortedProcessed_input_order(raw_candidates) == Processed(raw_candidates, <<>>)

\* processed.sort(key=lambda item: (len(item[1]), len(item[0])))
SortedProcessed(raw_candidates) ==
    StableSort(Processed(raw_candidates, <<>>),
        LAMBDA x, y : \/ Len(x.tokens) < Len(y.tokens)
                      \/ /\ Len(x.tokens) = Len(y.tokens)
                         /\ Len(x.slug) < Len(y.slug))

\* The sorted candidates of each list of categories of the run: resolve
\* reads nothing but the list and the cache up to there.
CategoryLists == {l.categories : l \in Lines} \cup ResolveLists
Candidates == [cats \in CategoryLists |-> SortedProcessed(cats)]

RECURSIVE first_match(_, _)
\* The second loop of resolve: what the first _match_existing that finds a
\* category returns, or [st, None] when none does.
first_match(st, processed) ==
    IF processed = <<>> THEN [st |-> st, match |-> None]
    ELSE Apply(LAMBDA m : IF ~IsNone(m.match) THEN m
                          ELSE first_match(st, Tail(processed)),
               match_existing(st, Head(processed).slug, Head(processed).tokens))

\* A variant that returns None where the code registers a new category.
resolve_matches_only(st, raw_candidates) ==
    Apply(LAMBDA processed :
        IF processed = <<>> THEN [st |-> st, category |-> None]
        ELSE Apply(LAMBDA matched : [st |-> matched.st, category |-> matched.match],
                   first_match(st, processed)),
      Candidates[raw_candidates])

\* [st, category]: category is Some(label) or None
resolve(st, raw_candidates) ==
    Apply(LAMBDA processed :
        IF processed = <<>> THEN [st |-> st, category |-> None]
        ELSE Apply(LAMBDA matched :
                 IF ~IsNone(matched.match)
                 THEN [st |-> matched.st, category |-> matched.match]
                 ELSE [st |-> register_new(st, processed[1].slug,
                                           processed[1].tokens).st,
                       category |-> Some(processed[1].slug)],
               first_match(st, processed)),
      Candidates[raw_candidates])

---------------------------------------------------------------------------
(* openfoodfacts_to_json.py: extract_record and process_export *)

\* The eight canonical values of a product, by field.
Nutrients(nutr) ==
    [energy_kcal |-> energy_from_nutriments(nutr),
     protein_g |-> to_float(nutr["proteins_100g"]),
     fat_g |-> to_float(nutr["fat_100g"]),
     sat_fat_g |-> to_float(nutr["saturated-fat_100g"]),
     carb_g |-> to_float(nutr["carbohydrates_100g"]),
     sugar_g |-> to_float(nutr["sugars_100g"]),
     fiber_g |-> to_float(nutr["fiber_100g"]),
     sodium_mg |-> sodium_from_nutriments(nutr)]

\* sum(v is not None for v in nutrients.values())
Coverage(nutrients) == Cardinality({f \in FieldSet : ~IsNull(nutrients[f])})

extract_fields_keeps_one(product) ==
    LET nutrients == Nutrients(product.nutriments)
        coverage == Coverage(nutrients)
        name == pick_name(product)
        key == norm_key(Val(name))
    IN  IF ~product_in_allowed_region(product) THEN None
        ELSE IF ~product.nutriments_is_dict THEN None
        ELSE IF coverage < 1 THEN None
        ELSE IF IsNone(name) THEN None
        ELSE IF key = <<>> THEN None
        ELSE Some([key |-> key, coverage |-> coverage, nutrients |-> nutrients,
                   id |-> choose_id(product, key), name |-> Val(name),
                   aliases |-> build_aliases(product, Val(name))])

\* extract_record up to the call of the resolver, and the fields of the
\* record that the product alone decides: None where extract_record returns
\* None before it calls the resolver.
extract_fields(product) ==
    LET nutrients == Nutrients(product.nutriments)
        coverage == Coverage(nutrients)
        name == pick_name(product)
        key == norm_key(Val(name))
    IN  IF ~product_in_allowed_region(product) THEN None
        ELSE IF ~product.nutriments_is_dict THEN None
        ELSE IF coverage < 2 THEN None
        ELSE IF IsNone(name) THEN None
        ELSE IF key = <<>> THEN None
        ELSE Some([key |-> key, coverage |-> coverage, nutrients |-> nutrients,
                   id |-> choose_id(product, key), name |-> Val(name),
                   aliases |-> build_aliases(product, Val(name))])

\* extract_fields of each product of the run.
Products == {l \in Lines : l.kind = "product"}
Extracted == [product \in Products |-> extract_fields(product)]

\* A variant that keeps a product the resolver gave no category, with an
\* empty category.
extract_record_keeps_uncategorized(product, st) ==
    Apply(LAMBDA fields :
        IF IsNone(fields) THEN [st |-> st, result |-> None]
        ELSE Apply(LAMBDA res :
                 [st |-> res.st,
                  result |-> Some(
                      [key |-> Val(fields).key,
                       record |-> [id |-> Val(fields).id,
                                   name |-> Val(fields).name,
                                   aliases |-> Val(fields).aliases,
                                   category |-> IF IsNone(res.category) THEN <<>>
                                                ELSE Val(res.category),
                                   nutrients |-> Val(fields).nutrients,
                                   source |-> "OpenFoodFacts"],
                       coverage |-> Val(fields).coverage])],
               resolve(st, product.categories)),
      Extracted[product])

\* [st, result]: the resolver after the call, and None or Some([key, record,
\* coverage]).  A record carries the fields the catalog build and the claims
\* read: components, portion_size, basis, quantity, brands, food_groups and
\* default_portion are computed from the product alone and decide nothing here.
extract_record(product, st) ==
    Apply(LAMBDA fields :
        IF IsNone(fields) THEN [st |-> st, result |-> None]
        ELSE Apply(LAMBDA res :
                 IF IsNone(res.category) THEN [st |-> res.st, result |-> None]
                 ELSE [st |-> res.st,
                       result |-> Some(
                           [key |-> Val(fields).key,
                            record |-> [id |-> Val(fields).id,
                                        name |-> Val(fields).name,
                                        aliases |-> Val(fields).aliases,
                                        category |-> Val(res.category),
                                        nutrients |-> Val(fields).nutrients,
                                        source |-> "OpenFoodFacts"],
                            coverage |-> Val(fields).coverage])],
               resolve(st, product.categories)),
      Extracted[product])

reduce_step_keeps_first(recs, key, record, coverage) ==
    IF ~DictHas(recs, key)
    THEN DictSet(recs, key, [coverage |-> coverage, record |-> record])
    ELSE recs

reduce_step_ties_keep_last(recs, key, record, coverage) ==
    IF ~DictHas(recs, key) \/ coverage >= DictGet(recs, key).coverage
    THEN DictSet(recs, key, [coverage |-> coverage, record |-> record])
    ELSE recs

reduce_step_stale_coverage(recs, key, record, coverage) ==
    IF ~DictHas(recs, key)
    THEN DictSet(recs, key, [coverage |-> coverage, record |-> record])
    ELSE IF coverage > DictGet(recs, key).coverage
    THEN DictSet(recs, key, [coverage |-> DictGet(recs, key).coverage, record |-> record])
    ELSE recs

reduce_step_merges_aliases(recs, key, record, coverage) ==
    LET old == DictGet(recs, key)
        both(a, b) == SortedStrings(Range(a) \cup Range(b))
    IN  IF ~DictHas(recs, key)
        THEN DictSet(recs, key, [coverage |-> coverage, record |-> record])
        ELSE IF coverage > old.coverage
        THEN DictSet(recs, key,
                 [coverage |-> coverage,
                  record |-> [record EXCEPT !.aliases = both(@, old.record.aliases)]])
        ELSE DictSet(recs, key,
                 [old EXCEPT !.record.aliases = both(@, record.aliases)])

\* current = records.get(key)
\* if not current or coverage > current[0]: records[key] = (coverage, record)
reduce_step(recs, key, record, coverage) ==
    IF ~DictHas(recs, key) \/ coverage > DictGet(recs, key).coverage
    THEN DictSet(recs, key, [coverage |-> coverage, record |-> record])
    ELSE recs

\* items = [rec for _, rec in records.values()]
\* items.sort(key=lambda r: r["name"].lower())
SortedItems(recs) ==
    StableSort(Map(recs, LAMBDA e : e[2].record),
               LAMBDA x, y : StrLess(Lower(x.name), Lower(y.name)))

---------------------------------------------------------------------------
(* openfoodfacts_to_json.py: process_export, one line at a time *)

\* One turn of the loop over the lines of the export.  A line that parses
\* to something that is no dict raises AttributeError in
\* product_in_allowed_region (product.get), which nothing catches.
ProcessLine(line) ==
    /\ pc = "export"
    /\ idx < MaxLines
    /\ idx' = idx + 1
    /\ UNCHANGED <<off_file, classify_vars, build_vars, found, merge_vars, call_vars>>
    /\ IF line.kind \in {"blank", "badjson"}
       THEN UNCHANGED <<pc, records, resolver, seen, rejected>>
       ELSE IF line.kind = "nonobject"
       THEN pc' = "export_crashed" /\ UNCHANGED <<records, resolver, seen, rejected>>
       ELSE \E r \in {extract_record(line, resolver)} :
                /\ pc' = pc
                /\ resolver' = r.st
                /\ IF IsNone(r.result)
                   THEN /\ rejected' = rejected \cup {line}
                        /\ UNCHANGED <<records, seen>>
                   ELSE /\ records' = reduce_step(records, Val(r.result).key,
                                          Val(r.result).record, Val(r.result).coverage)
                        /\ seen' = Append(seen, Val(r.result))
                        /\ UNCHANGED rejected

\* The end of the input: the items are sorted and written, and
\* process_export returns, which ends its locals.
FinishExport ==
    /\ pc = "export"
    /\ off_file' = Some(SortedItems(records))
    /\ pc' = "exported"
    /\ idx' = 0
    /\ records' = <<>>
    /\ resolver' = SeededResolver
    /\ seen' = <<>>
    /\ rejected' = {}
    /\ UNCHANGED <<classify_vars, build_vars, found, merge_vars, call_vars>>

---------------------------------------------------------------------------
(* build_nutrition_db.py: what main calls *)

\* first_value of None or of a str: value.split(",")[0].strip() or None
first_value(value) ==
    IF IsNone(value) THEN None
    ELSE Apply(LAMBDA head : IF head = <<>> THEN None ELSE Some(head),
               Strip(SplitOn(Val(value), ",")[1]))

RECURSIVE resolve_category(_)
\* The first candidate first_value keeps, or None.
resolve_category(candidates) ==
    IF candidates = <<>> THEN None
    ELSE Apply(LAMBDA resolved :
                   IF ~IsNone(resolved) THEN resolved
                   ELSE resolve_category(Tail(candidates)),
               first_value(Head(candidates)))

\* The texts each pattern of STOP_PREFIX matches, among the texts over the
\* characters of the model (which hold no "'" and no "é").
STOP_PREFIX ==
    << {<<"p", "i", "l", "l", "s", "b", "u", "r", "y">>}, {<<"k", "r", "a", "f", "t", " ", "f", "o", "o", "d", "s">>}, {<<"g", "e", "o", "r", "g", "e", " ", "w", "e", "s", "t", "o", "n">>}, {<<"n", "e", "s", "t", "l", "e">>},
       {<<"k", "e", "l", "l", "o", "g", "g">>}, {<<"g", "e", "n", "e", "r", "a", "l", " ", "m", "i", "l", "l", "s">>}, {<<"p", "e", "p", "s", "i", "c", "o">>},
       {<<"c", "o", "c", "a", "-", "c", "o", "l", "a">>, <<"c", "o", "c", "a", " ", "c", "o", "l", "a">>}, {<<"c", "a", "m", "p", "b", "e", "l", "l">>} >>

DROP_WORDS ==
    {<<"m", "i", "c", "r", "o", "w", "a", "v", "e", "d">>,
     <<"m", "i", "c", "r", "o", "w", "a", "v", "e">>,
     <<"t", "o", "a", "s", "t", "e", "d">>, <<"f", "r", "o", "z", "e", "n">>,
     <<"r", "e", "f", "r", "i", "g", "e", "r", "a", "t", "e", "d">>,
     <<"d", "o", "u", "g", "h">>,
     <<"r", "e", "a", "d", "y", "-", "t", "o", "-", "h", "e", "a", "t">>,
     <<"a", "r", "t", "i", "f", "i", "c", "i", "a", "l">>,
     <<"f", "l", "a", "v", "o", "r">>,
     <<"o", "r", "i", "g", "i", "n", "a", "l">>,
     <<"r", "e", "c", "i", "p", "e">>, <<"c", "o", "a", "t", "i", "n", "g">>,
     <<"f", "o", "r">>, <<"d", "r", "y">>,
     <<"p", "r", "e", "p", "a", "r", "e", "d">>,
     <<"i", "n", "s", "t", "a", "n", "t">>,
     <<"l", "o", "w", "-", "f", "a", "t">>, <<"n", "o", "n", "f", "a", "t">>,
     <<"r", "e", "d", "u", "c", "e", "d">>,
     <<"n", "o", "-", "s", "u", "g", "a", "r", "-", "a", "d", "d", "e", "d">>,
     <<"f", "a", "m", "i", "l", "y">>, <<"s", "i", "z", "e">>,
     <<"p", "a", "c", "k">>, <<"b", "o", "t", "t", "l", "e">>,
     <<"c", "a", "n", "n", "e", "d">>, <<"p", "e", "r", "c", "e", "n", "t">>,
     <<"%">>, <<"o", "z">>, <<"o", "u", "n", "c", "e">>, <<"f", "l">>,
     <<"l", "b">>, <<"p", "o", "u", "c", "h">>, <<"t", "r", "a", "y">>}

max_tokens == 4

\* re.sub(pat + r"[,\s]+", "", n) for one pattern, which "^" anchors
strip_prefix(n, alternatives) ==
    Apply(LAMBDA x :
        Apply(LAMBDA hits :
            IF hits = {} THEN x
            ELSE Apply(LAMBDA after :
                     SubSeq(x, SetMin(after \cup {Len(x) + 1}), Len(x)),
                   {i \in (Len(CHOOSE p \in hits : TRUE) + 1)..Len(x) :
                        x[i] \notin {",", " "}}),
          {p \in alternatives : /\ StartsWith(x, p)
                                /\ Len(x) > Len(p)
                                /\ x[Len(p) + 1] \in {",", " "}}),
      n)

RECURSIVE strip_prefixes(_, _)
\* for pat in STOP_PREFIX: n = re.sub(...)
strip_prefixes(n, patterns) ==
    IF patterns = <<>> THEN n
    ELSE strip_prefixes(strip_prefix(n, Head(patterns)), Tail(patterns))

RECURSIVE remove_parens(_)
\* re.sub(r"\([^)]*\)", " ", n)
remove_parens(n) ==
    Apply(LAMBDA x :
        Apply(LAMBDA open :
            IF open = {} THEN x
            ELSE Apply(LAMBDA close :
                     IF close = {} THEN x
                     ELSE SubSeq(x, 1, SetMin(open) - 1) \o <<" ">>
                          \o remove_parens(SubSeq(x, SetMin(close) + 1, Len(x))),
                   {j \in (SetMin(open) + 1)..Len(x) : x[j] = ")"}),
          {i \in 1..Len(x) : x[i] = "("}),
      n)

\* re.fullmatch(r"\d+([./]\d+)?", w)
is_number(w) ==
    Apply(LAMBDA x :
        LET digits(a, b) == a <= b /\ \A i \in a..b : x[i] \in DigitSet
        IN  \/ digits(1, Len(x))
            \/ \E k \in 2..(Len(x) - 1) :
                  x[k] \in {".", "/"} /\ digits(1, k - 1) /\ digits(k + 1, Len(x)),
      w)

clean_name(name) ==
    Apply(LAMBDA n :
        Apply(LAMBDA words :
            IF words # <<>> THEN Join(Take(words, max_tokens), <<" ">>) ELSE n,
          SelectSeq(Split(n), LAMBDA w : w \notin DROP_WORDS /\ ~is_number(w))),
      Map(remove_parens(strip_prefixes(CollapseSpaces(Strip(Lower(name))),
                                       STOP_PREFIX)),
          LAMBDA c : IF c = "," THEN " " ELSE c))

\* float(value) for a number, float(value.strip()) for a str that parses,
\* None for the others.
coerce_float(value) ==
    IF value.t = "num" THEN Num(value.v)
    ELSE IF value.t = "nan" THEN NaN
    ELSE IF value.t = "str"
    THEN Apply(LAMBDA parsed : IF IsNone(parsed) THEN Null ELSE Num(Val(parsed)),
               ParseFloat(Strip(value.s)))
    ELSE Null

\* values = {field: coerce_float(nutrients.get(field)) for field in NUTRIENT_FIELDS}
Values(nutrients) ==
    [energy_kcal |-> coerce_float(nutrients.energy_kcal),
     protein_g |-> coerce_float(nutrients.protein_g),
     fat_g |-> coerce_float(nutrients.fat_g),
     sat_fat_g |-> coerce_float(nutrients.sat_fat_g),
     carb_g |-> coerce_float(nutrients.carb_g),
     sugar_g |-> coerce_float(nutrients.sugar_g),
     fiber_g |-> coerce_float(nutrients.fiber_g),
     sodium_mg |-> coerce_float(nutrients.sodium_mg)]

\* A variant whose alias rows carry the id of the item as it is in the file,
\* without the prefix the row gets.
prepare_curated_entry_alias_base_id(item, source, id_prefix) ==
    IF IsNone(item.id) \/ Val(item.id) = <<>> THEN None
    ELSE Apply(LAMBDA food_id : Apply(LAMBDA name : Apply(LAMBDA short :
             Some([row |-> [id |-> food_id, name |-> name, short_name |-> short,
                            category |-> first_value(item.category),
                            nutrients |-> Values(item.nutrients),
                            source |-> source],
                   alias_rows |->
                       Map(SortedStrings(
                               (Range(Map(item.aliases, LAMBDA a : Lower(Strip(a))))
                                \cup {Lower(name), Lower(short)}) \ {<<>>}),
                           LAMBDA a : [alias |-> a, food_id |-> Val(item.id)])]),
           clean_name(name)),
           Strip(IF IsNone(item.name) THEN <<>> ELSE Val(item.name))),
           IF ~IsNone(id_prefix) /\ ~StartsWith(Val(item.id), Val(id_prefix))
           THEN Val(id_prefix) \o Val(item.id)
           ELSE Val(item.id))

\* None for the ValueError of an item without id, or Some([row, alias_rows]).
\* A row carries the columns search_food and the claims read: id, name,
\* short_name, category, the eight nutrient columns and source.  The set
\* alias_candidates is iterated in an order the code does not fix; every
\* row of it has the same food_id.
prepare_curated_entry(item, source, id_prefix) ==
    IF IsNone(item.id) \/ Val(item.id) = <<>> THEN None
    ELSE Apply(LAMBDA food_id : Apply(LAMBDA name : Apply(LAMBDA short :
             Some([row |-> [id |-> food_id, name |-> name, short_name |-> short,
                            category |-> first_value(item.category),
                            nutrients |-> Values(item.nutrients),
                            source |-> source],
                   alias_rows |->
                       Map(SortedStrings(
                               (Range(Map(item.aliases, LAMBDA a : Lower(Strip(a))))
                                \cup {Lower(name), Lower(short)}) \ {<<>>}),
                           LAMBDA a : [alias |-> a, food_id |-> food_id])]),
           clean_name(name)),
           Strip(IF IsNone(item.name) THEN <<>> ELSE Val(item.name))),
           IF ~IsNone(id_prefix) /\ ~StartsWith(Val(item.id), Val(id_prefix))
           THEN Val(id_prefix) \o Val(item.id)
           ELSE Val(item.id))

---------------------------------------------------------------------------
(* build_nutrition_db.py: the tables and the input files of main *)

\* INSERT OR REPLACE INTO foods: id is the primary key.
insert_food(t, row) == {r \in t : r.id # row.id} \cup {row}

insert_alias_keeps_first(t, row) ==
    IF \E r \in t : r.alias = row.alias THEN t ELSE t \cup {row}

\* INSERT OR REPLACE INTO alias: alias is the primary key.
insert_alias(t, row) == {r \in t : r.alias # row.alias} \cup {row}

RECURSIVE insert_foods(_, _)
\* cur.executemany on foods: the rows in order
insert_foods(t, rows) ==
    Apply(LAMBDA rs :
              IF rs = <<>> THEN t
              ELSE insert_food(insert_foods(t, SubSeq(rs, 1, Len(rs) - 1)),
                               rs[Len(rs)]),
          rows)

RECURSIVE insert_aliases(_, _)
\* cur.executemany on alias: the rows in order
insert_aliases(t, rows) ==
    Apply(LAMBDA rs :
              IF rs = <<>> THEN t
              ELSE insert_alias(insert_aliases(t, SubSeq(rs, 1, Len(rs) - 1)),
                                rs[Len(rs)]),
          rows)

RECURSIVE Concat(_)
\* alias_rows after the loop over the items: the rows of each item, in order
Concat(seqs) ==
    Apply(LAMBDA x : IF x = <<>> THEN <<>>
                     ELSE Concat(SubSeq(x, 1, Len(x) - 1)) \o x[Len(x)],
          seqs)

\* n.get("energy_kcal"), ..., n.get("sodium_mg"): the nutrient columns
Columns(n) ==
    [energy_kcal |-> n["energy_kcal"], protein_g |-> n["protein_g"],
     fat_g |-> n["fat_g"], sat_fat_g |-> n["sat_fat_g"],
     carb_g |-> n["carb_g"], sugar_g |-> n["sugar_g"],
     fiber_g |-> n["fiber_g"], sodium_mg |-> n["sodium_mg"]]

\* The row of an item of foods.openfoodfacts.json.  Its category is never
\* None, and food_groups is read only where first_value keeps none of it.
off_row(it) ==
    [id |-> it.id, name |-> it.name, short_name |-> clean_name(it.name),
     category |-> resolve_category(<<Some(it.category)>>),
     nutrients |-> Columns(it.nutrients), source |-> it.source]

off_alias_rows(it) ==
    Map(it.aliases, LAMBDA a : [alias |-> Lower(Strip(a)), food_id |-> it.id])
    \o << [alias |-> Lower(Strip(it.name)), food_id |-> it.id] >>

\* The row of an item of foods.nutritionix.json, which has no food_groups
\* and no source.
nix_row(it) ==
    [id |-> it.id, name |-> it.name, short_name |-> clean_name(it.name),
     category |-> resolve_category(<<it.category, None, Some(<<"f", "r", "u", "i", "t", "s">>)>>),
     nutrients |-> Columns(it.nutrients), source |-> "Nutritionix"]

nix_alias_rows(it) ==
    Map(SelectSeq(Map(it.aliases, LAMBDA a : Lower(Strip(a)))
                  \o <<Lower(Strip(it.name))>>,
                  LAMBDA a : a # <<>>),
        LAMBDA a : [alias |-> a, food_id |-> it.id])

\* The loop over the items of a curated file: None where
\* prepare_curated_entry raises, or Some([rows, alias_rows]).
curated(items, source, id_prefix) ==
    Apply(LAMBDA entries :
              IF \E i \in 1..Len(entries) : IsNone(entries[i]) THEN None
              ELSE Some([rows |-> Map(entries, LAMBDA e : Val(e).row),
                         alias_rows |-> Concat(Map(entries,
                                            LAMBDA e : Val(e).alias_rows))]),
          Map(items, LAMBDA it : prepare_curated_entry(it, source, id_prefix)))

\* The nutrients of an item: the values of the pairs, null elsewhere.
Floats(pairs) ==
    [f \in FieldSet |->
        IF \E i \in 1..Len(pairs) : pairs[i][1] = f
        THEN pairs[CHOOSE i \in 1..Len(pairs) : pairs[i][1] = f][2]
        ELSE Null]

\* The nutrients of a curated item, as JSON values.
Raws(pairs) ==
    [f \in FieldSet |->
        IF \E i \in 1..Len(pairs) : pairs[i][1] = f
        THEN pairs[CHOOSE i \in 1..Len(pairs) : pairs[i][1] = f][2]
        ELSE RAbsent]

\* one value only; its short name is the name of PD2
NX1 ==
    [id |-> <<"n", "i", "x", "-", "1">>, name |-> <<"F", "r", "o", "z", "e", "n", " ", "D", "e">>, category |-> None,
     aliases |-> << <<"T", "e", "a", " ">> >>,
     nutrients |-> Floats(<< <<"energy_kcal", Num(40)>> >>)]
\* an empty alias, and the name of PD2 for alias
NX2 ==
    [id |-> <<"n", "i", "x", "-", "2">>, name |-> <<"T", "e", "a">>, category |-> Some(<<" ", "d", "r", "i", "n", "k", "s", ",", " ", "h", "o", "t">>),
     aliases |-> << <<>>, <<"d", "e">>, <<" ">> >>,
     nutrients |-> Floats(<< <<"energy_kcal", Num(1)>>, <<"sugar_g", Num(0)>>,
                             <<"sodium_mg", Num(4)>> >>)]
NixFiles == {<<>>, <<NX1>>, <<NX1, NX2>>}

\* a name clean_name shortens to "tea"; one text that float() rejects
L1 ==
    [id |-> Some(<<"l", "o", "c", "-", "1">>), name |-> Some(<<"K", "r", "a", "f", "t", " ", "F", "o", "o", "d", "s", ",", " ", "T", "e", "a", " ", "(", "h", "o", "t", ")", " ", "2", " ", "F", "r", "o", "z", "e", "n">>),
     category |-> Some(<<"d", "r", "i", "n", "k", "s">>), aliases |-> << <<"D", "e">> >>,
     nutrients |-> Raws(<< <<"sugar_g", RStr(<<" ", "7">>)>>, <<"fat_g", RStr(<<"1", "2", "g">>)>>,
                           <<"fiber_g", RNum(2)>> >>)]
\* an item without id
LBad == [L1 EXCEPT !.id = None]
\* a name clean_name shortens to one space; an alias with a run of spaces
L2 ==
    [L1 EXCEPT !.id = Some(<<"l", "o", "c", "-", "2">>), !.name = Some(<<"(", "h", "o", "t", ")">>),
               !.aliases = << <<"T", "e", "h", " ", " ", "O", " ">> >>]
LocalFiles == {<<>>, <<L1>>, <<L1, LBad>>, <<L2>>}

\* an id without the prefix; one value only
M1 ==
    [id |-> Some(<<"1">>), name |-> Some(<<"D", "e">>), category |-> None,
     aliases |-> <<>>,
     nutrients |-> Raws(<< <<"energy_kcal", RNum(10)>> >>)]
\* an id with the prefix; the short name of L1
M2 ==
    [id |-> Some(<<"m", "y", "f", "c", "d", "-", "2">>), name |-> Some(<<"C", "o", "c", "a", "-", "C", "o", "l", "a", ",", " ", "T", "e", "a">>),
     category |-> None, aliases |-> << <<"t", "e", "h", " ", "o">> >>,
     nutrients |-> Raws(<< <<"energy_kcal", RNum(10)>>, <<"carb_g", RStr(<<"3">>)>> >>)]
MyFcdFiles == {<<>>, <<M1>>, <<M1, M2>>}

---------------------------------------------------------------------------
(* search_food.py: classify *)

high_sugar_g == 20
high_fat_g == 17
low_fiber_g == 3
high_sodium_mg == 600

get_nan_is_number(x) == IF x.t = "null" THEN None ELSE Some(x.v)

\* get(x): None for None and for a float NaN, else float(x)
get(x) == IF x.t = "null" \/ x.t = "nan" THEN None ELSE Some(x.v)

classify_any_tag(n) ==
    LET sugar == get(n["sugar_g"])
        fat == get(n["fat_g"])
        fiber == get(n["fiber_g"])
        sodium == get(n["sodium_mg"])
        t1 == IF ~IsNone(sugar) /\ Val(sugar) > high_sugar_g THEN <<"High Sugar">> ELSE <<>>
        t2 == IF ~IsNone(fat) /\ Val(fat) > high_fat_g THEN <<"High Fat">> ELSE <<>>
        t3 == IF ~IsNone(fiber) /\ Val(fiber) < low_fiber_g THEN <<"Low Fiber">> ELSE <<>>
        t4 == IF ~IsNone(sodium) /\ Val(sodium) > high_sodium_mg THEN <<"High Sodium">> ELSE <<>>
        unk == (IF IsNone(sugar) THEN <<"sugar_g">> ELSE <<>>)
               \o (IF IsNone(fat) THEN <<"fat_g">> ELSE <<>>)
               \o (IF IsNone(fiber) THEN <<"fiber_g">> ELSE <<>>)
               \o (IF IsNone(sodium) THEN <<"sodium_mg">> ELSE <<>>)
        tags == t1 \o t2 \o t3 \o t4
    IN  [tags |-> IF Len(tags) >= 1 THEN Append(tags, "Unbalanced") ELSE tags,
         unknown |-> unk]

classify(n) ==
    LET sugar == get(n["sugar_g"])
        fat == get(n["fat_g"])
        fiber == get(n["fiber_g"])
        sodium == get(n["sodium_mg"])
        t1 == IF ~IsNone(sugar) /\ Val(sugar) > high_sugar_g THEN <<"High Sugar">> ELSE <<>>
        t2 == IF ~IsNone(fat) /\ Val(fat) > high_fat_g THEN <<"High Fat">> ELSE <<>>
        t3 == IF ~IsNone(fiber) /\ Val(fiber) < low_fiber_g THEN <<"Low Fiber">> ELSE <<>>
        t4 == IF ~IsNone(sodium) /\ Val(sodium) > high_sodium_mg THEN <<"High Sodium">> ELSE <<>>
        unk == (IF IsNone(sugar) THEN <<"sugar_g">> ELSE <<>>)
               \o (IF IsNone(fat) THEN <<"fat_g">> ELSE <<>>)
               \o (IF IsNone(fiber) THEN <<"fiber_g">> ELSE <<>>)
               \o (IF IsNone(sodium) THEN <<"sodium_mg">> ELSE <<>>)
        tags == t1 \o t2 \o t3 \o t4
    IN  [tags |-> IF Len(tags) >= 2 THEN Append(tags, "Unbalanced") ELSE tags,
         unknown |-> unk]

\* The nutrient dicts classify is tried on: each ruled field is absent, NaN,
\* at its threshold, one past it on either side, or the value of the
\* documented examples; the four fields without a rule are null or a number.
ClassifyInputs ==
    {[f \in FieldSet |->
        CASE f = "sugar_g" -> s
          [] f = "fat_g" -> a
          [] f = "fiber_g" -> b
          [] f = "sodium_mg" -> d
          [] f = "energy_kcal" -> e
          [] f = "protein_g" -> p
          [] OTHER -> o] :
      s \in {Null, NaN, Num(high_sugar_g), Num(high_sugar_g + 1), Num(25)},
      a \in {Null, Num(high_fat_g), Num(high_fat_g + 1), Num(5), Num(20)},
      b \in {Null, Num(low_fiber_g - 1), Num(low_fiber_g), Num(5)},
      d \in {Null, Num(high_sodium_mg), Num(high_sodium_mg + 1), Num(100)},
      e \in {Null, Num(1)}, p \in {Null, NaN}, o \in {Null, Num(1)}}

Classify ==
    /\ pc = "classify"
    /\ IsNone(cl_out)
    /\ cl_out' = Some(classify(cl_in))
    /\ UNCHANGED <<cl_in, pc, export_vars, build_vars, found, merge_vars, call_vars>>

---------------------------------------------------------------------------
(* build_nutrition_db.py: main, one source at a time *)

\* executescript drops and creates the tables, then the OpenFoodFacts block
\* runs on the file process_export wrote, if there is one.
BuildOpenFoodFacts ==
    /\ pc = "exported" \/ (pc = "export" /\ idx = 0)
    /\ \E items \in {IF IsNone(off_file) THEN <<>> ELSE Val(off_file)} :
         \E alias_rows \in {Concat(Map(items, off_alias_rows))} :
           /\ foods' = insert_foods({}, Map(items, off_row))
           /\ alias' = insert_aliases({}, alias_rows)
           /\ alias_log' = alias_rows
    /\ pc' = "nix"
    /\ UNCHANGED <<export_vars, classify_vars, found, merge_vars, call_vars>>

\* An empty file stands for the file that does not exist: both insert nothing.
BuildNutritionix ==
    /\ pc = "nix"
    /\ \E nix_items \in NixFiles :
         \E alias_rows \in {Concat(Map(nix_items, nix_alias_rows))} :
           /\ foods' = insert_foods(foods, Map(nix_items, nix_row))
           /\ alias' = insert_aliases(alias, alias_rows)
           /\ alias_log' = alias_log \o alias_rows
    /\ pc' = "local"
    /\ UNCHANGED <<export_vars, classify_vars, found, merge_vars, call_vars>>

\* What a curated block does with the outcome of its loop.  The ValueError
\* of prepare_curated_entry ends main before con.commit(): the tables that
\* executescript created stay, and none of the rows written since.
WriteCurated(entries, next_pc) ==
    IF IsNone(entries)
    THEN /\ foods' = {}
         /\ alias' = {}
         /\ alias_log' = <<>>
         /\ pc' = "build_failed"
    ELSE /\ foods' = insert_foods(foods, Val(entries).rows)
         /\ alias' = insert_aliases(alias, Val(entries).alias_rows)
         /\ alias_log' = alias_log \o Val(entries).alias_rows
         /\ pc' = next_pc

BuildLocal ==
    /\ pc = "local"
    /\ \E local \in LocalFiles :
         \E entries \in {curated(local, "Curated", None)} :
           WriteCurated(entries, "myfcd")
    /\ UNCHANGED <<export_vars, classify_vars, found, merge_vars, call_vars>>

\* The MyFCD block, then the rebuild of foods_fts, which reads foods and
\* alias and writes neither, and con.commit().
BuildMyFCD ==
    /\ pc = "myfcd"
    /\ \E myfcd_items \in MyFcdFiles :
         \E entries \in {curated(myfcd_items, "MyFCD", Some(<<"m", "y", "f", "c", "d", "-">>))} :
           WriteCurated(entries, "built")
    /\ UNCHANGED <<export_vars, classify_vars, found, merge_vars, call_vars>>

---------------------------------------------------------------------------
(* search_food.py: search_food *)

RECURSIVE LikeFrom(_, _, _, _)
\* SQLite's LIKE, the pattern p from position i against the text s from
\* position j: "%" matches any run, "_" any one character, a letter
\* matches in either case.
LikeFrom(p, s, i, j) ==
    IF i > Len(p) THEN j > Len(s)
    ELSE IF p[i] = "%" THEN \E k \in j..(Len(s) + 1) : LikeFrom(p, s, i + 1, k)
    ELSE /\ j <= Len(s)
         /\ p[i] = "_" \/ LowerChar(p[i]) = LowerChar(s[j])
         /\ LikeFrom(p, s, i + 1, j + 1)

Like(text, pattern) ==
    Apply(LAMBDA p : Apply(LAMBDA s : LikeFrom(p, s, 1, 1), text), pattern)

\* LIMIT ? without ORDER BY: any `limit` of the rows, all of them if fewer
Limited(rows, limit) ==
    Apply(LAMBDA S :
              {R \in SUBSET S :
                   Cardinality(R) = IF limit < Cardinality(S) THEN limit
                                    ELSE Cardinality(S)},
          rows)

\* WHERE name = ? OR short_name = ?
ExactRows(q) == {r \in foods : r.name = q \/ r.short_name = q}

\* WHERE name LIKE ? OR short_name LIKE ?, with f"%{q}%"
LikeRows(q) ==
    Apply(LAMBDA pattern :
              {r \in foods : Like(r.name, pattern) \/ Like(r.short_name, pattern)},
          <<"%">> \o q \o <<"%">>)

search_food_falls_through(query, limit) ==
    Apply(LAMBDA q :
        Apply(LAMBDA exact :
            IF exact # {} /\ limit > 0
            THEN {[q |-> q, limit |-> limit, tier |-> 2, rows |-> R] :
                      R \in Limited(exact, limit)}
            ELSE {[q |-> q, limit |-> limit, tier |-> 3, rows |-> R] :
                      R \in Limited(LikeRows(q), limit)},
          ExactRows(q)),
      Lower(Strip(query)))

\* The outcomes search_food can return on the tables foods and alias: the
\* normalized query, the limit, the tier that answered and the rows.
search_food(query, limit) ==
    Apply(LAMBDA q :
        Apply(LAMBDA r :
            IF r # {}
            THEN {[q |-> q, limit |-> limit, tier |-> 1,
                   rows |-> {f \in foods : \E a \in r : f.id = a.food_id}]}
            ELSE Apply(LAMBDA exact :
                     IF exact # {} /\ limit > 0
                     THEN {[q |-> q, limit |-> limit, tier |-> 2, rows |-> R] :
                               R \in Limited(exact, limit)}
                     ELSE {[q |-> q, limit |-> limit, tier |-> 3, rows |-> R] :
                               R \in Limited(LikeRows(q), limit)},
                   ExactRows(q)),
          {a \in alias : a.alias = q}),
      Lower(Strip(query)))

Queries ==
    {<<"d", "e">>, <<" ", "D", "E", " ">>, <<"e">>, <<"_", "e">>, <<"z", "z">>, <<"a", "b", " ", "c">>, <<"t", "e", "a">>, <<"F", "r", "o", "z", "e", "n">>}

Limits == {0, 1, 5}

\* One call of search_food on the catalog the build left.
Search ==
    /\ pc \in {"built", "build_failed"}
    /\ \E query \in Queries, limit \in Limits :
         \E r \in search_food(query, limit) : found' = Some(r)
    /\ pc' = "searched"
    /\ UNCHANGED <<export_vars, classify_vars, build_vars, merge_vars, call_vars>>

---------------------------------------------------------------------------
(* process_export's reduction, over two sources *)

RECURSIVE Reduce(_, _)
\* The loop of process_export over the results of extract_record, from the
\* dict recs.
Reduce(recs, results) ==
    Apply(LAMBDA rs :
              IF rs = <<>> THEN recs
              ELSE Apply(LAMBDA before :
                             reduce_step(before, rs[Len(rs)].key, rs[Len(rs)].record,
                                         rs[Len(rs)].coverage),
                         Reduce(recs, SubSeq(rs, 1, Len(rs) - 1))),
          results)

\* The winners of one dict offered to another by the rule of the loop.
MergeMaps(into, from) ==
    Reduce(into, Map(from, LAMBDA e : [key |-> e[1], record |-> e[2].record,
                                       coverage |-> e[2].coverage]))

\* What extract_record returns for the accepted products, each on a seeded
\* resolver.
SourcePool ==
    {Val(extract_record(p, SeededResolver).result) : p \in AcceptedProducts}

MaxSrcLen == 2

Sources == UNION {[1..n -> SourcePool] : n \in 0..MaxSrcLen}

InitMerge ==
    /\ pc = "merge"
    /\ m_in \in Sources \X Sources
    /\ m_out = None
    /\ call_in = None
    /\ call_out = None
    /\ cl_in = None
    /\ cl_out = None
    /\ idx = 0
    /\ records = <<>>
    /\ resolver = SeededResolver
    /\ seen = <<>>
    /\ rejected = {}
    /\ off_file = None
    /\ foods = {}
    /\ alias = {}
    /\ alias_log = <<>>
    /\ found = None

\* The two sources reduced as one sequence in either order, and reduced
\* apart and merged in either order.
Merge ==
    /\ pc = "merge"
    /\ \E a \in {Tuple(m_in[1])}, b \in {Tuple(m_in[2])} :
         m_out' = Some([ab |-> Reduce(<<>>, a \o b),
                        ba |-> Reduce(<<>>, b \o a),
                        a_b |-> MergeMaps(Reduce(<<>>, a), Reduce(<<>>, b)),
                        b_a |-> MergeMaps(Reduce(<<>>, b), Reduce(<<>>, a))])
    /\ pc' = "merged"
    /\ UNCHANGED <<m_in, classify_vars, export_vars, build_vars, found, call_vars>>

NextMerge == Merge

SpecMerge == InitMerge /\ [][NextMerge]_vars

---------------------------------------------------------------------------
(* classify on its own *)

InitClassify ==
    /\ pc = "classify"
    /\ cl_in \in ClassifyInputs
    /\ cl_out = None
    /\ idx = 0
    /\ records = <<>>
    /\ resolver = SeededResolver
    /\ seen = <<>>
    /\ rejected = {}
    /\ off_file = None
    /\ foods = {}
    /\ alias = {}
    /\ alias_log = <<>>
    /\ found = None
    /\ m_in = <<>>
    /\ m_out = None
    /\ call_in = None
    /\ call_out = None

NextClassify == Classify

SpecClassify == InitClassify /\ [][NextClassify]_vars

---------------------------------------------------------------------------
(* The pipeline: process_export, then the catalog build, then a search *)

Init ==
    /\ pc = "export"
    /\ idx = 0
    /\ records = <<>>
    /\ resolver = SeededResolver
    /\ seen = <<>>
    /\ rejected = {}
    /\ off_file = None
    /\ foods = {}
    /\ alias = {}
    /\ alias_log = <<>>
    /\ found = None
    /\ cl_in = None
    /\ cl_out = None
    /\ m_in = <<>>
    /\ m_out = None
    /\ call_in = None
    /\ call_out = None

Next ==
    \/ \E line \in Lines : ProcessLine(line)
    \/ FinishExport
    \/ BuildOpenFoodFacts
    \/ BuildNutritionix
    \/ BuildLocal
    \/ BuildMyFCD
    \/ Search

Spec == Init /\ [][Next]_vars

---------------------------------------------------------------------------
(* C1, C3: the record process_export retains for a key *)

\* The accepted results of a key, in the order extract_record produced them.
Group(key) == SelectSeq(seen, LAMBDA r : r.key = key)

\* The first member of the group of a key that has the group's highest
\* coverage.
Winner(key) ==
    Apply(LAMBDA g :
              g[SetMin({i \in 1..Len(g) :
                            \A j \in 1..Len(g) : g[j].coverage <= g[i].coverage})],
          Group(key))

\* C1: after any prefix of the input, records holds one entry for each key
\* seen, and it is the coverage and the record of the first accepted result
\* of that key among those of the highest coverage seen so far.
C1_FirstHighestCoverage ==
    /\ {records[j][1] : j \in 1..Len(records)} = {seen[i].key : i \in 1..Len(seen)}
    /\ \A j, k \in 1..Len(records) : records[j][1] = records[k][1] => j = k
    /\ \A j \in 1..Len(records) :
          \A w \in {Winner(records[j][1])} :
              records[j][2] = [coverage |-> w.coverage, record |-> w.record]

\* Two different records of one key tied at the key's highest coverage, and
\* the earlier one retained.
C1_Witness ==
    \E i, k \in 1..Len(seen) :
        /\ i < k
        /\ seen[i].key = seen[k].key
        /\ seen[i].coverage = seen[k].coverage
        /\ seen[i].record # seen[k].record
        /\ \A h \in 1..Len(seen) :
              seen[h].key = seen[i].key => seen[h].coverage <= seen[i].coverage
        /\ DictGet(records, seen[i].key).record = seen[i].record

---------------------------------------------------------------------------
(* C2: the reduction over two sources *)

\* The maps the four orders of reduction gave.
Outs ==
    IF IsNone(m_out) THEN {}
    ELSE {Val(m_out).ab, Val(m_out).ba, Val(m_out).a_b, Val(m_out).b_a}

\* The accepted results of both sources.
Both == Range(m_in[1]) \cup Range(m_in[2])

\* C2 as stated: every order of reduction gives the same key-to-record map.
C2_Original == \A x, y \in Outs : Range(x) = Range(y)

\* C2, amended: every order of reduction gives the same keys, one entry a
\* key, and for each key the highest coverage of the key among both sources
\* with a record of the key that has that coverage; which of several
\* records tied at that coverage is retained depends on the order.
C2_SameUpToTies ==
    \A x \in Outs :
        /\ {x[j][1] : j \in 1..Len(x)} = {r.key : r \in Both}
        /\ \A j, k \in 1..Len(x) : x[j][1] = x[k][1] => j = k
        /\ \A j \in 1..Len(x) :
              /\ \A r \in Both : r.key = x[j][1] => r.coverage <= x[j][2].coverage
              /\ \E r \in Both : /\ r.key = x[j][1]
                                 /\ r.coverage = x[j][2].coverage
                                 /\ r.record = x[j][2].record

\* The two sources hold records of one key with different coverages, and
\* the four reductions have run.
C2_Witness ==
    /\ ~IsNone(m_out)
    /\ \E i \in 1..Len(m_in[1]), j \in 1..Len(m_in[2]) :
          /\ m_in[1][i].key = m_in[2][j].key
          /\ m_in[1][i].coverage < m_in[2][j].coverage

---------------------------------------------------------------------------
(* C4: the alias table after the build *)

\* C4: after the build every alias string has one row, every alias written
\* has a row, and the row's food_id is the one of the last write of the
\* alias in the order of the writes.
C4_LastWriteWins ==
    pc \in {"built", "searched"} =>
        /\ \A a, b \in alias : a.alias = b.alias => a = b
        /\ {a.alias : a \in alias} = {alias_log[i].alias : i \in 1..Len(alias_log)}
        /\ \A a \in alias :
              a.food_id = alias_log[SetMax({i \in 1..Len(alias_log) :
                                                alias_log[i].alias = a.alias})].food_id

\* An alias written for one food by one source and for another food by a
\* later write, in a finished build.
C4_Witness ==
    /\ pc = "built"
    /\ \E i, j \in 1..Len(alias_log) :
          /\ i < j
          /\ alias_log[i].alias = alias_log[j].alias
          /\ alias_log[i].food_id # alias_log[j].food_id
          /\ [alias |-> alias_log[j].alias, food_id |-> alias_log[j].food_id] \in alias

---------------------------------------------------------------------------
(* C5, C6: the tiers of search_food *)

\* The alias rows of the normalized query of a call.
AliasRows(f) == {a \in alias : a.alias = f.q}

\* C5: a call answers from one tier.  A query that is an alias key gets
\* tier 1 and exactly the one food of the alias; tier 2 answers only a
\* query that is no alias key, with rows whose name or short_name is the
\* query; tier 3 answers only where tier 1 found no alias and tier 2
\* returned no row.
C5_OneTier ==
    \A f \in Range(found) :
        /\ f.tier \in {1, 2, 3}
        /\ AliasRows(f) # {} <=> f.tier = 1
        /\ f.tier = 1 =>
              /\ Cardinality(f.rows) = 1
              /\ \A r \in f.rows : \A a \in AliasRows(f) : r.id = a.food_id
        /\ f.tier = 2 => f.rows # {} /\ f.rows \subseteq ExactRows(f.q)
        /\ f.tier = 3 =>
              /\ Limited(ExactRows(f.q), f.limit) = {{}}
              /\ f.rows \subseteq LikeRows(f.q)

\* The query is an alias key and the call returned the food of the alias,
\* while another food has the query for name or short_name.
C5_Witness ==
    \E f \in Range(found) :
        /\ f.tier = 1
        /\ \E r \in foods : r \notin f.rows /\ (r.name = f.q \/ r.short_name = f.q)

\* str.lower() of the text contains the query, which is in lower case.
ContainsQuery(text, q) == Contains(Lower(text), q)

\* C6 as stated, letters compared in either case: tier 3 returns at most
\* limit rows, each with the query inside its name or its short_name.
C6_Original ==
    \A f \in Range(found) :
        f.tier = 3 =>
            /\ Cardinality(f.rows) <= f.limit
            /\ \A r \in f.rows :
                  ContainsQuery(r.name, f.q) \/ ContainsQuery(r.short_name, f.q)

---------------------------------------------------------------------------
(* C7 and C8: classify *)

\* The tag of each rule, in the order of the rules.
RuleTags == <<"High Sugar", "High Fat", "Low Fiber", "High Sodium">>

\* Whether the strict threshold of the rule of `tag` holds of the raw dict n.
Fires(n, tag) ==
    LET x == CASE tag = "High Sugar" -> n["sugar_g"]
               [] tag = "High Fat" -> n["fat_g"]
               [] tag = "Low Fiber" -> n["fiber_g"]
               [] OTHER -> n["sodium_mg"]
    IN  /\ x.t = "num"
        /\ CASE tag = "High Sugar" -> x.v > 20
             [] tag = "High Fat" -> x.v > 17
             [] tag = "Low Fiber" -> x.v < 3
             [] OTHER -> x.v > 600

FiredTags(n) ==
    LET F(tag) == Fires(n, tag) IN SelectSeq(RuleTags, F)

\* C7: classify returns the tags whose strict threshold fires, in the order
\* High Sugar, High Fat, Low Fiber, High Sodium, followed by "Unbalanced"
\* exactly when at least two of them fired.
C7_ClassifyTags ==
    ~IsNone(cl_out) =>
        Val(cl_out).tags =
            FiredTags(cl_in)
            \o (IF Len(FiredTags(cl_in)) >= 2 THEN <<"Unbalanced">> ELSE <<>>)

\* The documented example: sugar 25, fat 20, fiber 5, sodium 100.
C7_Witness ==
    /\ ~IsNone(cl_out)
    /\ cl_in["sugar_g"] = Num(25)
    /\ cl_in["fat_g"] = Num(20)
    /\ cl_in["fiber_g"] = Num(5)
    /\ cl_in["sodium_mg"] = Num(100)
    /\ Val(cl_out).tags = <<"High Sugar", "High Fat", "Unbalanced">>

\* The fields of a dict that are null or NaN, in the order of `fields`.
UnknownOf(n, fields) ==
    LET U(f) == n[f].t # "num" IN SelectSeq(fields, U)

\* C8 as stated: every null field of the eight canonical fields is listed
\* in unknown, and only null (or NaN) fields are.
C8_Original ==
    ~IsNone(cl_out) =>
        {Val(cl_out).unknown[i] : i \in 1..Len(Val(cl_out).unknown)}
            = {f \in FieldSet : cl_in[f].t # "num"}

\* The four fields classify has a rule for, in the order it reads them.
RuledFields == <<"sugar_g", "fat_g", "fiber_g", "sodium_mg">>

\* C8 as amended: unknown lists exactly the null (or NaN) fields among
\* sugar_g, fat_g, fiber_g, sodium_mg, in that order, and a field listed in
\* unknown contributes no tag; the other four fields are never listed.
C8_UnknownOfRuledFields ==
    ~IsNone(cl_out) =>
        /\ Val(cl_out).unknown = UnknownOf(cl_in, RuledFields)
        /\ \A i \in 1..Len(RuledFields) :
              cl_in[RuledFields[i]].t # "num" =>
                  \A j \in 1..Len(Val(cl_out).tags) :
                      Val(cl_out).tags[j] # RuleTags[i]

\* The documented example: sugar_g null, the others within thresholds.
C8_Witness ==
    /\ ~IsNone(cl_out)
    /\ cl_in["sugar_g"] = Null
    /\ cl_in["fat_g"] = Num(5)
    /\ cl_in["fiber_g"] = Num(5)
    /\ cl_in["sodium_mg"] = Num(100)
    /\ cl_in["energy_kcal"] = Null
    /\ Val(cl_out).tags = <<>>
    /\ Val(cl_out).unknown = <<"sugar_g">>

---------------------------------------------------------------------------
(* C9, C10: coverage *)

C10_CoverageOfRecord ==
    \A j \in 1..Len(records) :
        records[j][2].coverage = Coverage(records[j][2].record.nutrients)

\* A retained record that replaced one of a lower coverage.
C10_Witness ==
    \E j \in 1..Len(records) :
        /\ Group(records[j][1])[1].coverage < records[j][2].coverage
        /\ records[j][2].record # Group(records[j][1])[1].record

---------------------------------------------------------------------------
(* One function called on its own *)

\* The start of a run that calls one function, once, on one of the inputs.
InitCall(start, inputs) ==
    /\ pc = start
    /\ call_in \in inputs
    /\ call_out = None
    /\ cl_in = None
    /\ cl_out = None
    /\ idx = 0
    /\ records = <<>>
    /\ resolver = SeededResolver
    /\ seen = <<>>
    /\ rejected = {}
    /\ off_file = None
    /\ foods = {}
    /\ alias = {}
    /\ alias_log = <<>>
    /\ found = None
    /\ m_in = <<>>
    /\ m_out = None

\* What a call leaves alone.
CallFrame == UNCHANGED <<call_in, classify_vars, export_vars, build_vars, found, merge_vars>>

---------------------------------------------------------------------------
(* The source converters: from raw values to a nutrient of the record *)

\* usda_to_json.py: float(row.get(field, 0) or 0) on the cell of the pivot,
\* which is absent where no food has the nutrient (no column), NaN where
\* this food has no row of it, and a number otherwise.
usda_value(cell) ==
    IF cell.t = "absent" THEN Num(0)
    ELSE IF cell.t = "nan" THEN NaN
    ELSE Num(cell.v)

\* fetch_nutritionix.py: to_float, where float() of the text "nan" is NaN
nix_to_float(value) ==
    IF value.t = "absent" THEN Null
    ELSE IF value.t = "nan" THEN NaN
    ELSE IF value.t = "num" THEN Num(value.v)
    ELSE Apply(LAMBDA x :
                   IF Lower(x) = <<"n", "a", "n">> THEN NaN
                   ELSE Apply(LAMBDA parsed :
                                  IF IsNone(parsed) THEN Null ELSE Num(Val(parsed)),
                              ParseFloat(x)),
               Strip(value.s))

\* fetch_nutritionix.py: extract_nutrients for one field, from the value of
\* its entry of full_nutrients and the value of its nf_ key
extract_nutrients(full, nf) ==
    Apply(LAMBDA value : IF ~IsNull(value) THEN value ELSE nix_to_float(nf),
          nix_to_float(full))

\* The raw values of the converters.
RawValues ==
    {RAbsent, RNaN, RNum(0), RNum(5), RStr(<<>>), RStr(<<" ", "7">>), RStr(<<"1", "2", "g">>),
     RStr(<<"a", "b", "c">>), RStr(<<"n", "a", "n">>), RStr(<<"-">>)}

Converters == {"openfoodfacts", "usda", "nutritionix"}

ConvertInputs ==
    {[converter |-> c, first |-> a, second |-> b] :
         c \in Converters, a \in RawValues, b \in RawValues}

\* The nutrients a converter emits.  openfoodfacts: energy_kcal from the
\* keys energy-kcal_100g (first) and energy_100g (second).  nutritionix: a
\* field from full_nutrients (first) and its nf_ key (second).  usda: the
\* fields of two cells of the row, where a cell is a float or absent.
Convert ==
    /\ pc = "convert"
    /\ call_out' = Some(
           IF call_in.converter = "openfoodfacts"
           THEN <<energy_from_nutriments(Nutriments(
                      << <<"energy-kcal_100g", call_in.first>>,
                         <<"energy_100g", call_in.second>> >>))>>
           ELSE IF call_in.converter = "nutritionix"
           THEN <<extract_nutrients(call_in.first, call_in.second)>>
           ELSE <<usda_value(call_in.first), usda_value(call_in.second)>>)
    /\ pc' = "converted"
    /\ CallFrame

InitConvert ==
    InitCall("convert",
             {i \in ConvertInputs :
                  i.converter = "usda" => i.first.t # "str" /\ i.second.t # "str"})

NextConvert == Convert

SpecConvert == InitConvert /\ [][NextConvert]_vars

---------------------------------------------------------------------------
(* C11: no number for a value that is none *)

\* A raw value that is absent, NaN, or a text without any digit.
Unusable(raw) ==
    \/ raw.t \in {"absent", "nan"}
    \/ raw.t = "str" /\ \A i \in 1..Len(raw.s) : raw.s[i] \notin DigitSet

\* C11 as stated: a nutrient whose raw values are all absent, unparseable
\* or NaN is null in the record the converter emits, for every converter.
C11_Original ==
    \A out \in Range(call_out) :
        IF call_in.converter = "usda"
        THEN /\ Unusable(call_in.first) => IsNull(out[1])
             /\ Unusable(call_in.second) => IsNull(out[2])
        ELSE (Unusable(call_in.first) /\ Unusable(call_in.second)) => IsNull(out[1])

---------------------------------------------------------------------------
(* clean_name on its own, applied to a name and to its own result *)

\* The pieces the names are made of: two brand prefixes, a dropped word, a
\* number, a parenthesis and two plain words.
NameTokens ==
    {<<"N", "e", "s", "t", "l", "e">>, <<"K", "r", "a", "f", "t", " ", "F", "o", "o", "d", "s", ",">>, <<"F", "r", "o", "z", "e", "n">>, <<"2">>, <<"(", "h", "o", "t", ")">>, <<"T", "e", "a">>, <<"d", "e">>}

MaxNameTokens == 3

\* The names of one to MaxNameTokens pieces, a space between two pieces.
Names ==
    {Join(Tuple(f), <<" ">>) :
         f \in UNION {[1..n -> NameTokens] : n \in 1..MaxNameTokens}}

CleanName ==
    /\ pc = "clean_name"
    /\ \E once \in {clean_name(call_in)} :
         call_out' = Some([once |-> once, twice |-> clean_name(once)])
    /\ pc' = "cleaned"
    /\ CallFrame

InitCleanName == InitCall("clean_name", Names)

NextCleanName == CleanName

SpecCleanName == InitCleanName /\ [][NextCleanName]_vars

---------------------------------------------------------------------------
(* C12: clean_name of its own result *)

\* C12 as stated: clean_name of the short name of a name is that short name.
C12_Original == \A out \in Range(call_out) : out.twice = out.once

---------------------------------------------------------------------------
(* CategoryResolver.resolve: the calls of one run *)

MaxCalls == 3

\* One call of resolve on the resolver of the run.  call_in keeps the calls
\* made so far, each with its candidates and the label it returned.
Resolve(raw_candidates) ==
    /\ pc = "resolve"
    /\ Len(call_in) < MaxCalls
    /\ \E r \in {resolve(resolver, raw_candidates)} :
          /\ resolver' = r.st
          /\ call_in' = Append(call_in, [candidates |-> raw_candidates,
                                         category |-> r.category])
          /\ call_out' = Some(r.category)
    /\ UNCHANGED <<pc, classify_vars, idx, records, seen, rejected, off_file,
                   build_vars, found, merge_vars>>

InitResolve == InitCall("resolve", {<<>>})
NextResolve == \E raw_candidates \in ResolveLists : Resolve(raw_candidates)
SpecResolve == InitResolve /\ [][NextResolve]_vars

---------------------------------------------------------------------------
(* C13: the cluster state only grows *)

\* The tokens of a category in a cluster state.
TokensOf(st, category) ==
    IF DictHas(st.category_tokens, category)
    THEN DictGet(st.category_tokens, category) ELSE {}

\* C13: a call of resolve keeps every slug mapped to the category it had,
\* keeps every category, and keeps every token of every category.
C13_OnlyGrows ==
    [][/\ \A i \in 1..Len(resolver.slug_to_category) :
             /\ DictHas(resolver'.slug_to_category, resolver.slug_to_category[i][1])
             /\ DictGet(resolver'.slug_to_category, resolver.slug_to_category[i][1])
                = resolver.slug_to_category[i][2]
       /\ \A i \in 1..Len(resolver.category_tokens) :
             /\ DictHas(resolver'.category_tokens, resolver.category_tokens[i][1])
             /\ resolver.category_tokens[i][2]
                \subseteq TokensOf(resolver', resolver.category_tokens[i][1])]_vars

\* A call merged a new slug into a category that an earlier call registered,
\* and the category holds more than one token.
C13_Witness ==
    \E i \in 1..Len(resolver.slug_to_category) :
        /\ i > Len(SeededResolver.slug_to_category)
        /\ resolver.slug_to_category[i][1] # resolver.slug_to_category[i][2]
        /\ ~DictHas(SeededResolver.category_tokens, resolver.slug_to_category[i][2])
        /\ Cardinality(TokensOf(resolver, resolver.slug_to_category[i][2])) > 1

---------------------------------------------------------------------------
(* C14, C15: the labels of two single-candidate calls *)

\* The calls made so far that had one candidate, and that a usable one.
SingleCalls ==
    {i \in 1..Len(call_in) :
         /\ Len(call_in[i].candidates) = 1
         /\ ~IsNone(candidate_cache[call_in[i].candidates[1]])}

\* The tokens of the candidate of a single-candidate call.
CallTokens(i) == Val(candidate_cache[call_in[i].candidates[1]]).tokens

\* The merge criterion of _match_existing between two token tuples, taken
\* either way round.
MergeEachOther(s, t) == Merges(s, Range(t)) \/ Merges(t, Range(s))

\* C14 as stated: two single-candidate calls of one run whose token sets
\* satisfy the merge criterion against each other returned the same label.
C14_Original ==
    \A i, j \in SingleCalls :
        MergeEachOther(CallTokens(i), CallTokens(j))
            => call_in[i].category = call_in[j].category

\* C15: from the seeded resolver, the calls resolve(["en:potato-chips"]) and
\* resolve(["chips"]), in either order, return one label, and it is a label.
C15_ChipsConverge ==
    (/\ Len(call_in) >= 2
     /\ {call_in[1].candidates, call_in[2].candidates}
        = {<<<<"e", "n", ":", "p", "o", "t", "a", "t", "o", "-", "c", "h", "i", "p", "s">>>>, <<<<"c", "h", "i", "p", "s">>>>})
        => /\ call_in[1].category = call_in[2].category
           /\ ~IsNone(call_in[1].category)

\* "chips" was resolved first and opened the category chip; the call for
\* "en:potato-chips" then returned chip as well.
C15_Witness ==
    /\ Len(call_in) >= 2
    /\ call_in[1].candidates = <<<<"c", "h", "i", "p", "s">>>>
    /\ call_in[2].candidates = <<<<"e", "n", ":", "p", "o", "t", "a", "t", "o", "-", "c", "h", "i", "p", "s">>>>
    /\ call_in[2].category = Some(<<"c", "h", "i", "p">>)
    /\ DictGet(resolver.slug_to_category, <<"p", "o", "t", "a", "t", "o", "_", "c", "h", "i", "p">>) = <<"c", "h", "i", "p">>

---------------------------------------------------------------------------
(* C16: what resolve returns *)

\* A candidate text gives a usable token: it normalizes to a text that is
\* not empty, and that text has a token left after the stopwords.
Usable(raw) ==
    /\ ~IsNone(normalize_category_value(raw))
    /\ tokenize_category(Val(normalize_category_value(raw))) # <<>>

\* C16: the last call returned None exactly when none of its candidates
\* gives a usable token; otherwise it returned a label that is a category
\* of the cluster state after the call, and a slug is mapped to it.
C16_NullIffNoToken ==
    \A i \in {Len(call_in)} \ {0} :
        /\ IsNone(call_in[i].category)
           <=> \A k \in 1..Len(call_in[i].candidates) : ~Usable(call_in[i].candidates[k])
        /\ \A label \in Range(call_in[i].category) :
              /\ label # <<>>
              /\ DictHas(resolver.category_tokens, label)
              /\ \E j \in 1..Len(resolver.slug_to_category) :
                    resolver.slug_to_category[j][2] = label

\* A call whose first candidate is a stopword and whose second one is new
\* returned the category it registered for the second; a call before it had
\* no usable candidate and returned None.
C16_Witness ==
    \E i \in {Len(call_in)} \ {0, 1} :
        /\ Len(call_in[i].candidates) = 2
        /\ ~Usable(call_in[i].candidates[1])
        /\ Usable(call_in[i].candidates[2])
        /\ ~IsNone(call_in[i].category)
        /\ ~DictHas(SeededResolver.category_tokens, Val(call_in[i].category))
        /\ call_in[i - 1].candidates # <<>>
        /\ IsNone(call_in[i - 1].category)

---------------------------------------------------------------------------
(* openfoodfacts_to_json.py: extract_default_portion *)

\* Amounts are counted in thousandths: 1000 is 1.0, 4 is 0.004.

PORTION_UNIT_STOPWORDS == {<<"p", "e", "r">>, <<"o", "f">>, <<"t", "h", "e">>, <<"a">>, <<"a", "n">>, <<"x">>}

\* The units MEASURE_PATTERN names, in lower case.
MEASURE_UNITS ==
    {<<"m", "l">>, <<"m", "i", "l", "l", "i", "l", "i", "t", "e", "r">>, <<"m", "i", "l", "l", "i", "l", "i", "t", "e", "r", "s">>, <<"m", "i", "l", "l", "i", "l", "i", "t", "r", "e">>, <<"m", "i", "l", "l", "i", "l", "i", "t", "r", "e", "s">>,
     <<"l">>, <<"l", "i", "t", "e", "r">>, <<"l", "i", "t", "e", "r", "s">>, <<"l", "i", "t", "r", "e">>, <<"l", "i", "t", "r", "e", "s">>, <<"c", "l">>, <<"d", "l">>,
     <<"g">>, <<"g", "r", "a", "m">>, <<"g", "r", "a", "m", "s">>, <<"k", "g">>, <<"k", "i", "l", "o", "g", "r", "a", "m">>, <<"k", "i", "l", "o", "g", "r", "a", "m", "s">>}

\* \w
IsWord(c) == c \in LowerSet \/ c \in UpperSet \/ c \in DigitSet \/ c = "_"
IsLetter(c) == c \in LowerSet \/ c \in UpperSet

\* The last index of the run of characters of a class that holds index i.
RunEnd(x, i, InClass(_)) ==
    SetMax({j \in i..Len(x) : \A h \in i..j : InClass(x[h])})

\* MEASURE_PATTERN tried at the digit x[i]: \d+ takes the digits up to the
\* end of their run, (?:[\.,]\d+)? a mark and the digits after it when there
\* are any, \s* the spaces, and the unit is one of the alternatives that ends
\* at a word boundary, so it is the whole run of word characters there.
\* None, or Some([start, value, unit]) with value the text of the number.
measure_at(x, i) ==
    Apply(LAMBDA j :
        Apply(LAMBDA k :
            Apply(LAMBDA u :
                IF u > Len(x) \/ ~IsWord(x[u]) THEN None
                ELSE Apply(LAMBDA unit :
                         IF Lower(unit) \in MEASURE_UNITS
                         THEN Some([start |-> i, value |-> SubSeq(x, i, k), unit |-> unit])
                         ELSE None,
                       SubSeq(x, u, RunEnd(x, u, IsWord))),
              SetMin({h \in (k + 1)..(Len(x) + 1) : h = Len(x) + 1 \/ ~IsSpace(x[h])})),
          IF j + 2 <= Len(x) /\ x[j + 1] \in {".", ","} /\ x[j + 2] \in DigitSet
          THEN RunEnd(x, j + 2, LAMBDA c : c \in DigitSet) ELSE j),
      RunEnd(x, i, LAMBDA c : c \in DigitSet))

\* list(MEASURE_PATTERN.finditer(cleaned))[0]: the leftmost match, or None.
first_measure(x) ==
    Apply(LAMBDA starts :
              IF starts = {} THEN None ELSE measure_at(x, SetMin(starts)),
          {i \in 1..Len(x) : x[i] \in DigitSet /\ ~IsNone(measure_at(x, i))})

\* to_float(value_str) for the text of a number MEASURE_PATTERN matched, with
\* "," replaced by ".": its value in thousandths.  The texts of the model
\* hold three digits after the mark at most.
measure_value(value_str) ==
    Apply(LAMBDA marks :
        IF marks = {} THEN Num(1000 * DigitsValue(value_str))
        ELSE Num(1000 * DigitsValue(SubSeq(value_str, 1, SetMin(marks) - 1))
                 + DigitsValue(Take(SubSeq(value_str, SetMin(marks) + 1, Len(value_str))
                                    \o <<"0", "0", "0">>, 3))),
      {i \in 1..Len(value_str) : value_str[i] \in {".", ","}})

\* round(value, 2), and the int() of a whole result, on thousandths: to the
\* nearest hundredth, the even one of two equally near.
round_amount(value) ==
    Apply(LAMBDA q : Apply(LAMBDA r :
              10 * (IF r > 5 \/ (r = 5 /\ q % 2 = 1) THEN q + 1 ELSE q),
          value % 10), value \div 10)

\* The factor of a unit and the key of its amount.
UnitOf(unit_norm) ==
    IF unit_norm \in {<<"m", "l">>, <<"m", "i", "l", "l", "i", "l", "i", "t", "e", "r">>, <<"m", "i", "l", "l", "i", "l", "i", "t", "e", "r", "s">>, <<"m", "i", "l", "l", "i", "l", "i", "t", "r", "e">>, <<"m", "i", "l", "l", "i", "l", "i", "t", "r", "e", "s">>}
    THEN Some([factor |-> 1, key |-> "ml"])
    ELSE IF unit_norm \in {<<"l">>, <<"l", "i", "t", "e", "r">>, <<"l", "i", "t", "e", "r", "s">>, <<"l", "i", "t", "r", "e">>, <<"l", "i", "t", "r", "e", "s">>}
    THEN Some([factor |-> 1000, key |-> "ml"])
    ELSE IF unit_norm = <<"c", "l">> THEN Some([factor |-> 10, key |-> "ml"])
    ELSE IF unit_norm = <<"d", "l">> THEN Some([factor |-> 100, key |-> "ml"])
    ELSE IF unit_norm \in {<<"g">>, <<"g", "r", "a", "m">>, <<"g", "r", "a", "m", "s">>}
    THEN Some([factor |-> 1, key |-> "grams"])
    ELSE IF unit_norm \in {<<"k", "g">>, <<"k", "i", "l", "o", "g", "r", "a", "m">>, <<"k", "i", "l", "o", "g", "r", "a", "m", "s">>}
    THEN Some([factor |-> 1000, key |-> "grams"])
    ELSE None

\* A portion {"unit": unit_name, key: amount}.
Portion(unit_name, key, amount) == [unit |-> unit_name, key |-> key, amount |-> amount]

\* value: a float or Null; unit: a raw value.  None, or Some(portion).
convert_amount(value, unit, unit_name) ==
    IF IsNull(value) \/ unit.t # "str" THEN None
    ELSE Apply(LAMBDA unit_norm :
             IF unit_norm = <<>> THEN None
             ELSE Apply(LAMBDA found_unit :
                      IF IsNone(found_unit) THEN None
                      ELSE Apply(LAMBDA amount :
                               IF amount <= 0 THEN None
                               ELSE Some(Portion(unit_name, Val(found_unit).key,
                                                 round_amount(amount))),
                             value.v * Val(found_unit).factor),
                    UnitOf(unit_norm)),
           Lower(Strip(unit.s)))

\* WORD_RE.findall(prefix): the maximal runs of letters, in order.
Words(s) ==
    Apply(LAMBDA x :
              Map(SelectSeq(Indices(Len(x)),
                            LAMBDA i : IsLetter(x[i]) /\ (i = 1 \/ ~IsLetter(x[i - 1]))),
                  LAMBDA i : SubSeq(x, i, RunEnd(x, i, IsLetter))),
          s)

\* The unit name parse_portion_string takes from the text before the match.
prefix_unit_name(prefix, default_unit) ==
    Apply(LAMBDA words :
              IF words = <<>> THEN default_unit ELSE words[Len(words)],
          SelectSeq(Map(Words(prefix), Lower),
                    LAMBDA w : w \notin PORTION_UNIT_STOPWORDS))

\* text: a raw value.  None, or Some(portion).
parse_portion_string(text, default_unit) ==
    IF text.t # "str" THEN None
    ELSE Apply(LAMBDA cleaned :
             IF cleaned = <<>> THEN None
             ELSE Apply(LAMBDA match :
                      IF IsNone(match) THEN None
                      ELSE convert_amount(
                               measure_value(Val(match).value),
                               RStr(Val(match).unit),
                               prefix_unit_name(SubSeq(cleaned, 1, Val(match).start - 1),
                                                default_unit)),
                    first_measure(cleaned)),
           Strip(text.s))

\* The four slots of extract_default_portion, in the order it tries them.
Slots(product) ==
    <<parse_portion_string(product.serving_size, <<"s", "e", "r", "v", "i", "n", "g">>),
      convert_amount(to_float(product.serving_quantity), product.serving_quantity_unit,
                     <<"s", "e", "r", "v", "i", "n", "g">>),
      parse_portion_string(product.quantity, <<"p", "a", "c", "k", "a", "g", "e">>),
      convert_amount(to_float(product.product_quantity), product.product_quantity_unit,
                     <<"p", "a", "c", "k", "a", "g", "e">>)>>

\* The default of a basis.
basis_default(basis) ==
    IF basis = "per_100ml" THEN Portion(<<"1", "0", "0", "m", "l">>, "ml", 100000)
    ELSE Portion(<<"1", "0", "0", "g">>, "grams", 100000)

\* A variant that tries the package slots before the serving slots.
extract_default_portion_package_first(product, basis) ==
    Apply(LAMBDA slots :
              IF ~IsNone(slots[3]) THEN Val(slots[3])
              ELSE IF ~IsNone(slots[4]) THEN Val(slots[4])
              ELSE IF ~IsNone(slots[1]) THEN Val(slots[1])
              ELSE IF ~IsNone(slots[2]) THEN Val(slots[2])
              ELSE basis_default(basis),
          Slots(product))

extract_default_portion(product, basis) ==
    Apply(LAMBDA first :
        IF ~IsNone(first) THEN Val(first)
        ELSE Apply(LAMBDA second :
            IF ~IsNone(second) THEN Val(second)
            ELSE Apply(LAMBDA third :
                IF ~IsNone(third) THEN Val(third)
                ELSE Apply(LAMBDA fourth :
                    IF ~IsNone(fourth) THEN Val(fourth)
                    ELSE basis_default(basis),
                  convert_amount(to_float(product.product_quantity),
                                 product.product_quantity_unit, <<"p", "a", "c", "k", "a", "g", "e">>)),
              parse_portion_string(product.quantity, <<"p", "a", "c", "k", "a", "g", "e">>)),
          convert_amount(to_float(product.serving_quantity),
                         product.serving_quantity_unit, <<"s", "e", "r", "v", "i", "n", "g">>)),
      parse_portion_string(product.serving_size, <<"s", "e", "r", "v", "i", "n", "g">>))

\* The values of serving_size and of quantity in the products of the run.
ServingSizes ==
    {RAbsent, RNum(30000), RStr(<<"1", " ", "c", "u", "p">>), RStr(<<"0", " ", "g">>), RStr(<<"2", " ", "b", "i", "s", "c", "u", "i", "t", "s", " ", "(", "3", "0", " ", "g", ")">>),
     RStr(<<"0", ".", "0", "0", "4", " ", "g">>)}
Quantities ==
    {RAbsent, RStr(<<"1", " ", "l">>), RStr(<<"1", ",", "5", " ", "K", "G", " ", "x", " ", "2">>), RStr(<<"p", "a", "c", "k", " ", "o", "f", " ", "6">>),
     RStr(<<"a", " ", "B", "o", "x", " ", "0", ",", "2", "5", " ", "l", "i", "t", "r", "e", "s">>)}

\* The pairs (serving_quantity, serving_quantity_unit) and
\* (product_quantity, product_quantity_unit).
ServingQuantities ==
    {<<RAbsent, RAbsent>>, <<RNum(250000), RStr(<<"M", "L", " ">>)>>, <<RNum(0), RStr(<<"g">>)>>,
     <<RStr(<<"a", "b", "c">>), RStr(<<"g">>)>>, <<RNum(15000), RStr(<<"o", "z">>)>>,
     <<RNum(15000), RAbsent>>}
ProductQuantities ==
    {<<RAbsent, RAbsent>>, <<RNum(500000), RStr(<<"g">>)>>, <<RNum(0 - 5000), RStr(<<"g">>)>>,
     <<RNaN, RStr(<<"g">>)>>}

PortionInputs ==
    {[product |-> [serving_size |-> s, serving_quantity |-> sq[1],
                   serving_quantity_unit |-> sq[2], quantity |-> q,
                   product_quantity |-> pq[1], product_quantity_unit |-> pq[2]],
      basis |-> b] :
         s \in ServingSizes, sq \in ServingQuantities, q \in Quantities,
         pq \in ProductQuantities, b \in {"per_100g", "per_100ml"}}

\* extract_record's call of extract_default_portion.
ExtractPortion ==
    /\ pc = "portion"
    /\ call_out' = Some(extract_default_portion(call_in.product, call_in.basis))
    /\ pc' = "portioned"
    /\ CallFrame

InitPortion == InitCall("portion", PortionInputs)
NextPortion == ExtractPortion
SpecPortion == InitPortion /\ [][NextPortion]_vars

---------------------------------------------------------------------------
(* C17, C18: the default portion *)

\* C17: the portion returned is the one parsed from the first of the four
\* slots that parses, in the order serving_size, serving_quantity with its
\* unit, quantity, product_quantity with its unit; when no slot parses it is
\* {"unit": "100ml", "ml": 100} for the basis per_100ml and
\* {"unit": "100g", "grams": 100} otherwise.  The quantity text "1 l" gives
\* {"unit": "package", "ml": 1000} when the serving slots do not parse.
C17_FirstSlotThatParses ==
    \A out \in Range(call_out) :
        \A slots \in {Slots(call_in.product)} :
            \A parsed \in {{i \in 1..4 : ~IsNone(slots[i])}} :
                /\ parsed # {} => out = Val(slots[SetMin(parsed)])
                /\ parsed = {} /\ call_in.basis = "per_100ml"
                       => out = [unit |-> <<"1", "0", "0", "m", "l">>, key |-> "ml", amount |-> 100000]
                /\ parsed = {} /\ call_in.basis # "per_100ml"
                       => out = [unit |-> <<"1", "0", "0", "g">>, key |-> "grams", amount |-> 100000]
                /\ (call_in.product.quantity = RStr(<<"1", " ", "l">>) /\ parsed \cap {1, 2} = {})
                       => out = [unit |-> <<"p", "a", "c", "k", "a", "g", "e">>, key |-> "ml", amount |-> 1000000]

\* Neither serving slot parses, the quantity text and product_quantity both
\* do, and the portion is the one of the quantity text.
C17_Witness ==
    /\ ~IsNone(call_out)
    /\ call_in.product.serving_size = RStr(<<"0", " ", "g">>)
    /\ call_in.product.serving_quantity_unit = RStr(<<"o", "z">>)
    /\ call_in.product.quantity = RStr(<<"1", " ", "l">>)
    /\ call_in.product.product_quantity = RNum(500000)
    /\ Val(call_out) = [unit |-> <<"p", "a", "c", "k", "a", "g", "e">>, key |-> "ml", amount |-> 1000000]

\* C18 as stated: the portion returned carries grams or ml, with an amount
\* above zero after the rounding.
C18_Original ==
    \A out \in Range(call_out) : out.key \in {"grams", "ml"} /\ out.amount > 0

---------------------------------------------------------------------------
(* C19: malformed lines *)

\* C19 as stated: no line aborts process_export, whatever it holds.
C19_Original == pc # "export_crashed"

---------------------------------------------------------------------------
(* C20: records without a name or an id *)

\* C20 as stated: an item without an id does not fail the catalog build.
C20_Original == pc # "build_failed"

---------------------------------------------------------------------------
(* C21: the ids of the retained records *)

\* C21 as stated: no two records process_export retains, each under its own
\* name key, carry the same id, and every item it wrote has a row of its own
\* in foods after the OpenFoodFacts block of the build.
C21_Original ==
    /\ \A j, k \in 1..Len(records) :
          records[j][2].record.id = records[k][2].record.id => j = k
    /\ \A items \in Range(off_file) :
          /\ \A j, k \in 1..Len(items) : items[j].id = items[k].id => j = k
          /\ pc = "nix" =>
                Cardinality({r \in foods : r.source = "OpenFoodFacts"}) = Len(items)

---------------------------------------------------------------------------
(* C22: a product without a category *)

\* The product passes every test of extract_record before the resolver, and
\* none of its category candidates gives a usable token.
Uncategorized(p) ==
    /\ p.kind = "product"
    /\ ~IsNone(Extracted[p])
    /\ \A k \in 1..Len(p.categories) : ~Usable(p.categories[k])

\* C22 as stated: a product whose candidates give no usable token is kept,
\* never dropped.
C22_Original == \A p \in rejected : ~Uncategorized(p)

\* C22, amended: extract_record drops a product whose candidates give no
\* usable token.  Every record process_export accepted, retains or wrote has
\* a category that is a label, and a product that passed every other test
\* was dropped for that reason alone.
C22_NoCategoryDropped ==
    /\ \A i \in 1..Len(seen) : seen[i].record.category # <<>>
    /\ \A j \in 1..Len(records) : records[j][2].record.category # <<>>
    /\ \A items \in Range(off_file) :
          \A i \in 1..Len(items) : items[i].category # <<>>
    /\ \A p \in rejected : ~IsNone(Extracted[p]) => Uncategorized(p)

\* A product with a name, an allowed region, five values and the candidates
\* "other" and "en:" was dropped, and another product is retained.
C22_Witness ==
    /\ records # <<>>
    /\ \E p \in rejected : Uncategorized(p) /\ p.categories # <<>>

---------------------------------------------------------------------------
(* C23: the alias keys *)

\* C23 as stated: every alias key written to the table alias, by any source,
\* is not empty, in lower case, trimmed, and has no run of spaces.
C23_Original ==
    \A i \in 1..Len(alias_log) :
        /\ alias_log[i].alias # <<>>
        /\ Lower(alias_log[i].alias) = alias_log[i].alias
        /\ Strip(alias_log[i].alias) = alias_log[i].alias
        /\ CollapseSpaces(alias_log[i].alias) = alias_log[i].alias

---------------------------------------------------------------------------
(* openfoodfacts_to_json.py: energy and sodium of a nutriments dict *)

KCAL_KEYS == <<"energy-kcal_100g", "energy-kcal_value", "energy-kcal">>
KJ_KEYS == <<"energy-kj_100g", "energy_100g", "energy-kj_value", "energy">>

\* The values under a key of the nutriments of the run.
EnergyValues == {RAbsent, RNaN, RNum(1000), RNum(0), RStr(<<"a", "b", "c">>), RStr(<<" ", "7">>)}
SodiumValues == {RAbsent, RNaN, RNum(1), RStr(<<"a", "b", "c">>)}

\* A nutriments dict with one kcal key, one kilojoule key, sodium and salt.
DeriveInputs ==
    {Nutriments(<< <<KCAL_KEYS[c], kcal>>, <<KJ_KEYS[j], kj>>,
                   <<"sodium_100g", sodium>>, <<"salt_100g", salt>> >>) :
         c \in 1..3, kcal \in EnergyValues, j \in 1..4, kj \in EnergyValues,
         sodium \in SodiumValues, salt \in SodiumValues}

\* extract_record's calls of energy_from_nutriments and
\* sodium_from_nutriments on the nutriments of a product.
Derive ==
    /\ pc = "derive"
    /\ call_out' = Some([energy_kcal |-> energy_from_nutriments(call_in),
                         sodium_mg |-> sodium_from_nutriments(call_in)])
    /\ pc' = "derived"
    /\ CallFrame

InitDerive == InitCall("derive", DeriveInputs)
NextDerive == Derive
SpecDerive == InitDerive /\ [][NextDerive]_vars

---------------------------------------------------------------------------
(* C24: direct values before converted ones *)

\* The values of the keys of a list that parse, in the order of the keys.
ParsedOf(nutr, keys) ==
    SelectSeq(Map(keys, LAMBDA k : to_float(nutr[k])), LAMBDA x : ~IsNull(x))

\* C24: energy_kcal is the first kcal value that parses, as it is; it is a
\* kilojoule value times 0.239005736 only when no kcal key parses, and null
\* when no kilojoule key parses either.  sodium_mg is the sodium field when
\* it parses, from grams to milligrams; it is salt times 393.66 only when
\* the sodium field does not parse, and null when salt does not parse
\* either.  1000 kJ without kcal gives 1000 x 0.239005736, and 1 g of salt
\* without sodium gives 1 x 393.66.
C24_DirectFirst ==
    \A out \in Range(call_out) :
        \A kcal \in {ParsedOf(call_in, KCAL_KEYS)} :
        \A kj \in {ParsedOf(call_in, KJ_KEYS)} :
        \A sodium \in {ParsedOf(call_in, <<"sodium_100g">>)} :
        \A salt \in {ParsedOf(call_in, <<"salt_100g">>)} :
            /\ kcal # <<>> => out.energy_kcal = kcal[1]
            /\ kcal = <<>> /\ kj # <<>>
                   => out.energy_kcal = [t |-> "num", v |-> kj[1].v, k |-> "x0.239005736"]
            /\ kcal = <<>> /\ kj = <<>> => out.energy_kcal = Null
            /\ out.energy_kcal.k = "x0.239005736" => kcal = <<>>
            /\ sodium # <<>>
                   => out.sodium_mg = [t |-> "num", v |-> sodium[1].v, k |-> "x1000"]
            /\ sodium = <<>> /\ salt # <<>>
                   => out.sodium_mg = [t |-> "num", v |-> salt[1].v, k |-> "xSALT_TO_SODIUM"]
            /\ sodium = <<>> /\ salt = <<>> => out.sodium_mg = Null
            /\ out.sodium_mg.k = "xSALT_TO_SODIUM" => sodium = <<>>
            /\ (kcal = <<>> /\ kj # <<>> /\ kj[1].v = 1000)
                   => out.energy_kcal.v = 1000 /\ out.energy_kcal.k = "x0.239005736"

\* A kcal value and a kilojoule value both parse and the kcal value was
\* returned as it is, while sodium does not parse and salt was converted.
C24_Witness ==
    /\ ~IsNone(call_out)
    /\ ParsedOf(call_in, KCAL_KEYS) # <<>>
    /\ ParsedOf(call_in, KJ_KEYS) # <<>>
    /\ ParsedOf(call_in, KCAL_KEYS)[1].v # ParsedOf(call_in, KJ_KEYS)[1].v
    /\ Val(call_out).energy_kcal.k = "x1"
    /\ call_in["sodium_100g"] = RStr(<<"a", "b", "c">>)
    /\ Val(call_out).sodium_mg = [t |-> "num", v |-> 1, k |-> "xSALT_TO_SODIUM"]

---------------------------------------------------------------------------
(* C25: the category a call registers *)

\* No category of the cluster state takes the candidate: its slug is not
\* mapped, and its tokens meet the merge criterion with no token set.
Unmatched(st, cand) ==
    /\ ~DictHas(st.slug_to_category, cand.slug)
    /\ \A i \in 1..Len(st.slug_to_category) :
          ~Merges(cand.tokens, TokensOf(st, st.slug_to_category[i][2]))

\* cand x sorts before cand y by (token count, slug length).
SortsBefore(x, y) ==
    \/ Len(x.tokens) < Len(y.tokens)
    \/ Len(x.tokens) = Len(y.tokens) /\ Len(x.slug) < Len(y.slug)

\* C25: when a call has usable candidates and none of them matches a
\* category, the call appends one slug mapping and one token set and changes
\* nothing else: the slug is the one of the candidate that is least by
\* (token count, slug length), the first of those in the input on a tie; it
\* maps to itself, its token set is the tokens of that candidate, and it is
\* the label returned.
C25_RegistersFirstSorted ==
    [][\A call \in {call_in'[Len(call_in')]} :
         \A usable \in {Processed(call.candidates, <<>>)} :
            (/\ usable # <<>>
             /\ \A i \in 1..Len(usable) : Unmatched(resolver, usable[i]))
            => \E b \in 1..Len(usable) :
                  /\ \A j \in 1..Len(usable) : ~SortsBefore(usable[j], usable[b])
                  /\ \A j \in 1..(b - 1) : SortsBefore(usable[b], usable[j])
                  /\ call.category = Some(usable[b].slug)
                  /\ resolver'.slug_to_category
                     = Append(resolver.slug_to_category, <<usable[b].slug, usable[b].slug>>)
                  /\ resolver'.category_tokens
                     = Append(resolver.category_tokens,
                              <<usable[b].slug, Range(usable[b].tokens)>>)]_vars

\* The call with the candidates "en:tea-bags" and "teas", on a state where
\* neither matches, registered tea, the second of the input, with the one
\* token tea, and returned it.
C25_Witness ==
    /\ call_in # <<>>
    /\ call_in[Len(call_in)].candidates = <<<<"e", "n", ":", "t", "e", "a", "-", "b", "a", "g", "s">>, <<"t", "e", "a", "s">>>>
    /\ call_in[Len(call_in)].category = Some(<<"t", "e", "a">>)
    /\ resolver.slug_to_category[Len(resolver.slug_to_category)] = <<<<"t", "e", "a">>, <<"t", "e", "a">>>>
    /\ resolver.category_tokens[Len(resolver.category_tokens)] = <<<<"t", "e", "a">>, {<<"t", "e", "a">>}>>
    /\ ~DictHas(resolver.slug_to_category, <<"t", "e", "a", "_", "b", "a", "g">>)

---------------------------------------------------------------------------
(* C26: a candidate resolved before *)

\* C26: a call with one candidate that an earlier call of the run had as
\* its one candidate returns what that call returned, whatever calls came
\* between, and leaves the slug mapping and the token sets as they were.
C26_SeenSlugStable ==
    [][\A call \in {call_in'[Len(call_in')]} :
         \A i \in 1..Len(call_in) :
            (Len(call.candidates) = 1 /\ call_in[i].candidates = call.candidates)
            => /\ call.category = call_in[i].category
               /\ resolver' = resolver]_vars

\* "fish curry" resolved to curry; "curry fish" then put the token curry
\* into canned_fish, which comes first; "fish curry" resolved to curry again.
C26_Witness ==
    /\ Len(call_in) = 3
    /\ call_in[1].candidates = <<<<"f", "i", "s", "h", " ", "c", "u", "r", "r", "y">>>>
    /\ call_in[2].candidates = <<<<"c", "u", "r", "r", "y", " ", "f", "i", "s", "h">>>>
    /\ call_in[3].candidates = <<<<"f", "i", "s", "h", " ", "c", "u", "r", "r", "y">>>>
    /\ call_in[3].category = Some(<<"c", "u", "r", "r", "y">>)
    /\ <<"c", "u", "r", "r", "y">> \in TokensOf(resolver, <<"c", "a", "n", "n", "e", "d", "_", "f", "i", "s", "h">>)

---------------------------------------------------------------------------
(* C27: no dangling alias *)

\* C27: the food_id of every row of alias is the id of a row of foods, in
\* every state of the build and after it, and a call of search_food that
\* answered from the alias tier returned a row.
C27_NoDanglingAlias ==
    /\ \A a \in alias : \E r \in foods : r.id = a.food_id
    /\ \A f \in Range(found) : f.tier = 1 => f.rows # {}

\* Two items of the OpenFoodFacts file had one id and the later one replaced
\* the row of the earlier; the name of the earlier is still an alias of that
\* id, and a search for it returned the row of the later.
C27_Witness ==
    /\ pc = "searched"
    /\ \E f \in Range(found) :
          /\ f.tier = 1
          /\ f.q = <<"a", "b", " ", "c">>
          /\ \E r \in f.rows : r.name = <<"D", "e">> /\ r.source = "OpenFoodFacts"
    /\ \E i \in 1..Len(alias_log) :
          alias_log[i].alias = <<"d", "e">> /\ alias_log[i].food_id = <<"o", "f", "f", "-", "1", "1">>

---------------------------------------------------------------------------
(* C28: the shape of the cluster state *)

\* C28: in every state of the resolver, after the seeding and after any
\* calls, the category of every slug is a key of category_tokens with tokens
\* in its set, and every category is a slug that maps to itself.
C28_WellFormed ==
    /\ \A i \in 1..Len(resolver.slug_to_category) :
          \A label \in {resolver.slug_to_category[i][2]} :
              /\ DictHas(resolver.category_tokens, label)
              /\ DictGet(resolver.category_tokens, label) # {}
              /\ DictHas(resolver.slug_to_category, label)
              /\ DictGet(resolver.slug_to_category, label) = label
    /\ \A i \in 1..Len(resolver.category_tokens) :
          \A label \in {resolver.category_tokens[i][1]} :
              /\ resolver.category_tokens[i][2] # {}
              /\ DictHas(resolver.slug_to_category, label)
              /\ DictGet(resolver.slug_to_category, label) = label

\* After three calls the state holds a category that a call registered and
\* a slug that a call merged into a seed.
C28_Witness ==
    /\ Len(call_in) = MaxCalls
    /\ \E i \in 1..Len(resolver.category_tokens) :
          ~DictHas(SeededResolver.category_tokens, resolver.category_tokens[i][1])
    /\ \E i \in 1..Len(resolver.slug_to_category) :
          /\ resolver.slug_to_category[i][1] # resolver.slug_to_category[i][2]
          /\ DictHas(SeededResolver.category_tokens, resolver.slug_to_category[i][2])

====
